---------------------------- MODULE Spec2Model ----------------------------
(***************************************************************************)
(* Model of the spot-future arbitrage orchestrator:                        *)
(*   - FundManager (src/src/script/fund_manager.py): the capital ledger    *)
(*   - MainProcess (src/src/script/main_process.py): readiness events and  *)
(*     the sub process supervisor                                          *)
(*                                                                         *)
(* Decimal amounts are modelled by integers.  The only division of the     *)
(* ledger, (limit*account_value - position_value)/(limit - 1), is taken on *)
(* account snapshots for which it is exact, so integer arithmetic and      *)
(* Decimal arithmetic agree on every value the model computes.             *)
(***************************************************************************)
EXTENDS Integers, Sequences, FiniteSets, TLC

(***************************************************************************)
(* Bounds of the model and input domains                                   *)
(***************************************************************************)
\* request ids are 1..MaxId (UUIDs in the code)
MaxId == 2
\* the number of FundManager calls in a behaviour
MaxCalls == 4

\* a coin gets at most MaxSpawns pipes and sub processes in a behaviour
MaxSpawns == 2
\* a pipe holds at most MaxInbox messages that were not yet received, and the
\* sub processes write at most MaxSends messages in a behaviour
MaxInbox == 1
MaxSends == 2
\* the external calls of the observed loop that raise
MaxFailures == 2
\* the broadcasts and order events that reach a pipe in a behaviour
MaxBroadcasts == 1

Ids == 1..MaxId

\* the coins of the market
Coins == {"BTC", "ETH"}
\* collateralWeight of a coin, in hundredths
WeightValues == {5, 90}
\* collateral weights below 0.1 are too low for a hedge pair
MinCollateralWeight == 10

\* leverage_limit None
NoLimit == 0
LeverageLimits == {NoLimit, 2, 3}

\* account_info['freeCollateral'], ['totalAccountValue'], ['totalPositionSize'], ['leverage']
FreeCollateralValues == {200, 600}
AccountValues == {0, 1000}
PositionValues == {0, 2500, 3200}
MaxLeverageValues == {10}
\* arguments of update_usd_state
FreeUsdValues == {0, 200}
SpotBorrowValues == {0, 100}
\* FtxFundRequestMessage.fund_needed, .spot_notional_value
FundNeededValues == {0, 100, 400}
SpotNotionalValues == {0, 300}
\* FtxFundOpenFilledMessage.fund_used
FundUsedValues == {0, 300}

\* the messages a sub process writes to its pipe: fund requests and fill reports
PipeFundNeededValues == {100}
PipeFundUsedValues == {300}

\* config.funding_service_config: leverage_upper_bound and leverage_lower_bound
\* are in tenths, the amounts in USD
FsDisabled ==
    [enable |-> FALSE, target_leverage |-> 0, leverage_upper_bound |-> 0,
     leverage_lower_bound |-> 0, daily_max_net_deposit |-> 0,
     min_deposit_amount |-> 0, min_withdraw_amount |-> 0, min_remain |-> 0]
FsEnabled ==
    [enable : {TRUE}, target_leverage : {2}, leverage_upper_bound : {25},
     leverage_lower_bound : {15}, daily_max_net_deposit : {500, 1000},
     min_deposit_amount : {100, 350}, min_withdraw_amount : {100},
     min_remain : {0, 50}]
FsConfigs == FsEnabled \cup {FsDisabled}
\* what the exchange and the funding service report to _apply_funding_service:
\* account_info['totalPositionSize'], usd_info['availableForWithdrawal'], the
\* USD balance of the funding account, the USD deposited and withdrawn in the
\* last 24 hours
FsPositionValues == {0, 2500, 3200, 3300}
AvailableForWithdrawalValues == {0, 120, 1000}
FundingBalanceValues == {50, 300, 5000}
DepositedValues == {0, 600, 950}
WithdrawnValues == {0, 100}

max(a, b) == IF a >= b THEN a ELSE b
min(a, b) == IF a <= b THEN a ELSE b

VARIABLES
    \* FundManager fields
    leverage_limit, free_collateral, free_usd, borrowed_usd,
    collateral_freeze, leverage_info,
    \* the value returned by the FundManager call just made (NoResponse when it
    \* returned None or raised)
    response,
    \* the FundManager method called last ("" before the first call) and the
    \* exception it raised ("" when it returned)
    op, raised,
    \* account_info['freeCollateral'] of the last update_account_state that took effect
    synced_collateral,
    \* ids whose freeze was released by handle_open_order_filled since it was last granted
    released,
    \* the sum of the fund_supply request_for_open granted since the last
    \* update_account_state
    granted,
    \* the number of FundManager calls made so far
    calls,
    \* MainProcess: the asyncio.Event flags of the parameter pollers
    trading_rules_ready, interest_rate_ready, fee_rate_ready,
    collateral_weights_ready, account_info_ready,
    \* config.whitelist, config.blacklist
    whitelist, blacklist,
    \* MainProcess.hedge_pairs (coin -> trade type), .collateral_weights
    \* (coin -> weight), .leverage_info
    hedge_pairs, collateral_weights, main_leverage_info,
    \* where _market_status_polling_loop and _spawn_sub_processes are suspended
    market_pc, spawn_pc,
    \* MainProcess._connections, ._sub_processes (coin -> number of the pipe, of
    \* the process), ._sub_process_notify_events (coin -> is set),
    \* ._sub_process_listen_tasks (coin -> number of the pipe the task reads)
    _connections, _sub_processes, _sub_process_notify_events,
    _sub_process_listen_tasks,
    \* the operating system: pipes and processes made so far per coin, the
    \* processes that run, the processes joined and closed, the pipes closed
    spawn_count, alive, joined, closed,
    \* "started" while the tasks of start_network run, "stopped" once
    \* stop_network cancelled them; the exception the last stop_network raised;
    \* the listen tasks (coin, number of the pipe) that were cancelled
    network, stop_raised, cancelled,
    \* per coin: the messages its sub process wrote to the pipe and
    \* _listen_sub_process_msg has not yet received, the ids of the fund
    \* requests
    \* _listen_sub_process_msg received, the fund responses written to the
    \* pipe; the exception _listen_sub_process_msg logged last
    inbox, received, responses, listen_raised,
    \* the number of messages the sub processes wrote to their pipes so far
    sends,
    \* config.funding_service_config and the request made to the funding service
    \* by the last run of _apply_funding_service
    fs_config, fs_request,
    \* what the last run of _apply_funding_service read and did, and the kind of
    \* the request the funding service still works on
    fs_outcome, fs_in_progress,
    \* one periodic loop of start_network, observed from the creation of its
    \* task: the name of its coroutine ("" before the task is created), the
    \* await it is suspended at, the state of task.cancel(), the exception its
    \* last external call raised, the number of external calls that raised;
    \* whether sys.exit was called; whether asyncio.CancelledError is a subclass
    \* of Exception in the interpreter (it is before Python 3.8)
    loop_name, loop_pc, loop_cancel, loop_raised, loop_failures, process_exited,
    cancelled_is_exception,
    \* the number of iterations of _account_info_polling_loop that logged an
    \* exception of _update_account_info
    account_info_failures,
    \* the event loop and FundManager.lock: the task that runs ("" when the
    \* event loop chooses the next one), the task that holds the lock ("" when
    \* it is free), and per task the FundManager call it is in
    current, lock, tasks,
    \* the pipes seen from the main process: per pipe (coin, number) the
    \* messages written to its conn1 so far; MainProcess.trading_rules (the
    \* symbols that have a rule); the number of broadcasts and order events
    \* that reached a pipe
    outbox, trading_rules, broadcasts

ledger == <<free_collateral, free_usd, borrowed_usd, collateral_freeze, leverage_info>>
fund_vars == <<leverage_limit, free_collateral, free_usd, borrowed_usd,
               collateral_freeze, leverage_info, response, op, raised,
               synced_collateral, released, granted, calls>>
main_vars == <<trading_rules_ready, interest_rate_ready, fee_rate_ready,
               collateral_weights_ready, account_info_ready, whitelist, blacklist,
               hedge_pairs, collateral_weights, main_leverage_info, market_pc,
               spawn_pc, _connections, _sub_processes, _sub_process_notify_events,
               _sub_process_listen_tasks, spawn_count, alive, joined, closed,
               network, stop_raised, cancelled, inbox, received, responses, listen_raised,
               sends, fs_config, fs_request, fs_outcome, fs_in_progress,
               loop_name, loop_pc, loop_cancel, loop_raised, loop_failures,
               process_exited, cancelled_is_exception, account_info_failures,
               current, lock, tasks, outbox, trading_rules, broadcasts>>
loop_vars == <<loop_name, loop_pc, loop_cancel, loop_raised, loop_failures,
               process_exited, cancelled_is_exception>>
atomic_vars == <<current, lock, tasks>>
stop_vars == <<network, stop_raised, cancelled, loop_vars, account_info_failures,
               atomic_vars>>
chan_vars == <<outbox, trading_rules, broadcasts>>
pipe_vars == <<inbox, received, responses, listen_raised, sends, chan_vars>>
fs_vars == <<fs_config, fs_request, fs_outcome, fs_in_progress>>
vars == <<fund_vars, main_vars>>

(***************************************************************************)
(* FundManager                                                             *)
(***************************************************************************)
\* FtxLeverageInfo(): no snapshot yet
DefaultLeverageInfo ==
    [known |-> FALSE, max_leverage |-> 0, account_value |-> 0,
     position_value |-> 0, current_leverage |-> <<0, 1>>]

\* FtxLeverageInfo(max_leverage, account_value, position_value, current_leverage);
\* current_leverage = position_value / account_value is kept as the exact
\* fraction <<numerator, denominator>>
FtxLeverageInfo(max_leverage, account_value, position_value) ==
    [known |-> TRUE, max_leverage |-> max_leverage, account_value |-> account_value,
     position_value |-> position_value,
     current_leverage |-> <<position_value, account_value>>]

NoResponse == [id |-> 0, approve |-> FALSE, fund_supply |-> 0, borrow |-> 0]

FtxFundResponseMessage(id, approve, fund_supply, borrow) ==
    [id |-> id, approve |-> approve, fund_supply |-> fund_supply, borrow |-> borrow]

FtxFundRequestMessages ==
    [id : Ids, fund_needed : FundNeededValues, spot_notional_value : SpotNotionalValues]

FtxFundOpenFilledMessages == [id : Ids, fund_used : FundUsedValues]

\* the snapshots on which the leverage-limit division is exact for the limit in use
ExactFor(limit, info) ==
    IF limit = NoLimit THEN TRUE
    ELSE (limit * info.totalAccountValue - info.totalPositionSize) % (limit - 1) = 0

AccountInfos ==
    [freeCollateral : FreeCollateralValues, leverage : MaxLeverageValues,
     totalAccountValue : AccountValues, totalPositionSize : PositionValues]

\* the snapshots the account poller of MainProcess gets
PolledAccountInfos ==
    {info \in AccountInfos : info.freeCollateral = 600 /\ info.totalPositionSize = 2500}

RECURSIVE SumFreeze(_, _)
\* sum of freeze[k] for k in keys
SumFreeze(freeze, keys) ==
    IF keys = {} THEN 0
    ELSE LET k == CHOOSE x \in keys : TRUE
         IN freeze[k] + SumFreeze(freeze, keys \ {k})

FreezeTotal(freeze) == SumFreeze(freeze, DOMAIN freeze)

\* dict.get(key, 0)
FreezeGet(freeze, id) == IF id \in DOMAIN freeze THEN freeze[id] ELSE 0

\* as FreezeSet, forgetting the entries of the other ids
FreezeSetAlone(freeze, id, amount) == [k \in {id} |-> amount]

\* as FreezeSet, adding to the freeze the id already holds
FreezeSetAdds(freeze, id, value) ==
    [k \in (DOMAIN freeze) \cup {id} |->
        IF k = id THEN FreezeGet(freeze, id) + value ELSE freeze[k]]

\* dict[key] = value
FreezeSet(freeze, id, value) ==
    [k \in (DOMAIN freeze) \cup {id} |-> IF k = id THEN value ELSE freeze[k]]

InitFund ==
    /\ leverage_limit \in LeverageLimits
    /\ free_collateral = 0
    /\ free_usd = 0
    /\ borrowed_usd = 0
    /\ collateral_freeze = [k \in {} |-> 0]
    /\ leverage_info = DefaultLeverageInfo
    /\ response = NoResponse
    /\ op = ""
    /\ raised = ""
    /\ synced_collateral = 0
    /\ released = {}
    /\ granted = 0
    /\ calls = 0

\* free_collateral after the account sync
\* SyncedFreeCollateral that does not subtract the freezes
SyncedFreeCollateralReported(reported, freeze) == max(0, reported)

SyncedFreeCollateral(reported, freeze) == max(0, reported - FreezeTotal(freeze))

\* update_account_state that divides inside the lock, after its assignments
update_account_state_divides_last(account_info) ==
    /\ op' = "update_account_state"
    /\ free_collateral' =
           SyncedFreeCollateral(account_info.freeCollateral, collateral_freeze)
    /\ synced_collateral' = account_info.freeCollateral
    /\ response' = NoResponse
    /\ IF account_info.totalAccountValue = 0
       THEN /\ raised' = "DivisionByZero"
            /\ UNCHANGED leverage_info
       ELSE /\ raised' = ""
            /\ leverage_info' = FtxLeverageInfo(account_info.leverage,
                                                account_info.totalAccountValue,
                                                account_info.totalPositionSize)
    /\ granted' = 0
    /\ UNCHANGED <<leverage_limit, free_usd, borrowed_usd, collateral_freeze, released>>

update_account_state(account_info) ==
    /\ op' = "update_account_state"
    /\ IF account_info.totalAccountValue = 0
       THEN \* position_value / account_value raises before the lock is taken:
            \* decimal.DivisionByZero, or decimal.InvalidOperation for 0 / 0
            /\ raised' = IF account_info.totalPositionSize = 0
                         THEN "InvalidOperation"
                         ELSE "DivisionByZero"
            /\ response' = NoResponse
            /\ UNCHANGED <<leverage_limit, ledger, synced_collateral, released, granted>>
       ELSE /\ free_collateral' =
                   SyncedFreeCollateral(account_info.freeCollateral, collateral_freeze)
            /\ leverage_info' = FtxLeverageInfo(account_info.leverage,
                                                account_info.totalAccountValue,
                                                account_info.totalPositionSize)
            /\ synced_collateral' = account_info.freeCollateral
            /\ raised' = ""
            /\ response' = NoResponse
            /\ granted' = 0
            /\ UNCHANGED <<leverage_limit, free_usd, borrowed_usd, collateral_freeze,
                           released>>

update_usd_state(usd, spot_borrow) ==
    /\ op' = "update_usd_state"
    /\ free_usd' = usd
    /\ borrowed_usd' = spot_borrow
    /\ raised' = ""
    /\ response' = NoResponse
    /\ UNCHANGED <<leverage_limit, free_collateral, collateral_freeze, leverage_info,
                   synced_collateral, released, granted>>

\* as _get_free_collateral_with_leverage_limit, dividing by the limit
LimitDividesByLimit(limit, info, collateral) ==
    LET available_collateral ==
            (limit * info.account_value - info.position_value) \div limit
    IN max(0, min(available_collateral, collateral))

_get_free_collateral_with_leverage_limit(limit, info, collateral) ==
    LET available_collateral ==
            (limit * info.account_value - info.position_value) \div (limit - 1)
    IN max(0, min(available_collateral, collateral))

\* the collateral request_for_open works with
AvailableCollateral(limit, info, collateral) ==
    IF limit # NoLimit
    THEN _get_free_collateral_with_leverage_limit(limit, info, collateral)
    ELSE collateral

\* as RequestBranch, denying only below zero
RequestBranchDenyBelowZero(collateral, fund_needed) ==
    IF collateral < 0 THEN "deny"
    ELSE IF fund_needed < collateral THEN "partial"
    ELSE "full"

\* the branch of request_for_open taken: "deny", "partial" or "full"
RequestBranch(collateral, fund_needed) ==
    IF collateral <= 0 THEN "deny"
    ELSE IF fund_needed < collateral THEN "partial"
    ELSE "full"

\* as ResponseBorrow, returning the computed borrow in every branch
ResponseBorrowComputed(branch, borrow, fund_supply) == borrow

\* the borrow field of the response
ResponseBorrow(branch, borrow, fund_supply) ==
    IF branch = "partial" THEN borrow ELSE fund_supply

\* as FreeUsdAfter, without the clamp at zero
FreeUsdAfterUnclamped(usd, fund_supply) == usd - fund_supply

\* self.free_usd = max(Decimal(0), self.free_usd - fund_supply)
FreeUsdAfter(usd, fund_supply) == max(0, usd - fund_supply)

request_for_open(request) ==
    /\ op' = "request_for_open"
    /\ UNCHANGED <<leverage_limit, leverage_info, synced_collateral>>
    /\ IF leverage_limit # NoLimit /\ ~leverage_info.known
       THEN \* arithmetic on the fields of an empty FtxLeverageInfo raises
            /\ raised' = "TypeError"
            /\ response' = NoResponse
            /\ UNCHANGED <<free_collateral, free_usd, borrowed_usd,
                           collateral_freeze, released, granted>>
       ELSE LET collateral ==
                    AvailableCollateral(leverage_limit, leverage_info, free_collateral)
                branch == RequestBranch(collateral, request.fund_needed)
                fund_supply ==
                    IF branch = "partial" THEN request.fund_needed ELSE collateral
                borrow == max(0, request.spot_notional_value - free_usd)
            IN  /\ raised' = ""
                /\ IF branch = "deny"
                   THEN /\ response' =
                               FtxFundResponseMessage(request.id, FALSE, 0, 0)
                        /\ UNCHANGED <<free_collateral, free_usd, borrowed_usd,
                                       collateral_freeze, released, granted>>
                   ELSE /\ collateral_freeze' =
                               FreezeSet(collateral_freeze, request.id, fund_supply)
                        /\ free_collateral' =
                               IF branch = "partial"
                               THEN free_collateral - fund_supply ELSE 0
                        /\ borrowed_usd' = borrowed_usd + borrow
                        /\ free_usd' = FreeUsdAfter(free_usd, fund_supply)
                        /\ released' = released \ {request.id}
                        /\ granted' = granted + fund_supply
                        /\ response' = FtxFundResponseMessage(
                               request.id, TRUE, fund_supply,
                               ResponseBorrow(branch, borrow, fund_supply))

\* free_collateral after the fill is settled
SettledFreeCollateral(collateral, freeze_amount, fund_used) ==
    collateral + freeze_amount - fund_used

\* collateral_freeze after the fill is settled: the entry stays
SettledFreeze(freeze, id) == freeze

handle_open_order_filled(msg) ==
    LET freeze_amount == FreezeGet(collateral_freeze, msg.id)
    IN  /\ op' = "handle_open_order_filled"
        /\ free_collateral' =
               SettledFreeCollateral(free_collateral, freeze_amount, msg.fund_used)
        /\ collateral_freeze' = SettledFreeze(collateral_freeze, msg.id)
        /\ released' = IF msg.id \in DOMAIN collateral_freeze
                       THEN released \cup {msg.id} ELSE released
        /\ raised' = ""
        /\ response' = NoResponse
        /\ UNCHANGED <<leverage_limit, free_usd, borrowed_usd, leverage_info,
                       synced_collateral, granted>>

\* one more FundManager call
Call ==
    /\ calls < MaxCalls
    /\ calls' = calls + 1

RefreshAccount ==
    \E info \in AccountInfos :
        /\ ExactFor(leverage_limit, info)
        /\ Call
        /\ update_account_state(info)

RefreshUsd ==
    \E usd \in FreeUsdValues, spot_borrow \in SpotBorrowValues :
        /\ Call
        /\ update_usd_state(usd, spot_borrow)

RequestAllocation ==
    \E request \in FtxFundRequestMessages :
        /\ Call
        /\ request_for_open(request)

SettleFill ==
    \E msg \in FtxFundOpenFilledMessages :
        /\ Call
        /\ handle_open_order_filled(msg)

NextLedger ==
    \/ RefreshAccount /\ UNCHANGED main_vars
    \/ RefreshUsd /\ UNCHANGED main_vars
    \/ RequestAllocation /\ UNCHANGED main_vars
    \/ SettleFill /\ UNCHANGED main_vars

(***************************************************************************)
(* MainProcess: readiness events, hedge pairs, sub process supervision     *)
(***************************************************************************)
EmptyDict == [k \in {} |-> 0]

\* del d[key] for every key in keys
Without(d, keys) == [k \in (DOMAIN d) \ keys |-> d[k]]

\* d.update(e)
Updated(d, e) == [k \in (DOMAIN d) \cup (DOMAIN e) |-> IF k \in DOMAIN e THEN e[k] ELSE d[k]]

\* a request to the funding service for amount cents, with the values that
\* sized it: the position and account value, the balance of the funding
\* account and the net deposit of the last 24 hours (deposit), the USD
\* available for withdrawal (withdraw)
FsRequest(kind, amount, position, account_value, balance, net_deposit, available) ==
    [kind |-> kind, amount |-> amount, position |-> position,
     account_value |-> account_value, balance |-> balance,
     net_deposit |-> net_deposit, available |-> available]

\* no request to the funding service
NoFsRequest == FsRequest("none", 0, 0, 0, 0, 0, 0)

\* one run of _apply_funding_service: the position and account value it read,
\* the number of calls of request_deposit and request_withdraw it made,
\* whether the call raised, the worker status it polled ("" when it polled
\* none) and the kind of the request that was in progress when it started
FsOutcome(position, account_value, submitted, rejected, status, in_progress_before) ==
    [position |-> position, account_value |-> account_value,
     submitted |-> submitted, rejected |-> rejected, status |-> status,
     in_progress_before |-> in_progress_before]

\* a run that read no account
NoFsOutcome == FsOutcome(0, 0, 0, FALSE, "", "none")

\* the tasks that call the FundManager: the account poller and the listen
\* task of each coin
Tasks == {"_account_info_polling_loop"} \cup {"_listen_sub_process_msg" \o c : c \in Coins}

\* a call of a FundManager method with its arguments, and how far it got:
\* "called", "waiting" for the lock, "locked", "partial" after the first
\* assignment of update_account_state
LedgerCall(stage, method, info, msg, usd, spot_borrow) ==
    [stage |-> stage, method |-> method, info |-> info, msg |-> msg, usd |-> usd,
     spot_borrow |-> spot_borrow]

NoInfo == [freeCollateral |-> 0, leverage |-> 0, totalAccountValue |-> 0, totalPositionSize |-> 0]

NoMessage == [type |-> "", id |-> 0, fund_needed |-> 0, spot_notional_value |-> 0, fund_used |-> 0]

\* the task is in no call of the FundManager
NoCall == LedgerCall("idle", "", NoInfo, NoMessage, 0, 0)

\* the pipes a behaviour can make: (coin, number of the pipe of the coin)
Channels == Coins \X (1..MaxSpawns)

InitMain ==
    /\ trading_rules_ready = FALSE
    /\ interest_rate_ready = FALSE
    /\ fee_rate_ready = FALSE
    /\ collateral_weights_ready = FALSE
    /\ account_info_ready = FALSE
    /\ whitelist \in SUBSET Coins
    /\ blacklist \in SUBSET Coins
    /\ hedge_pairs = EmptyDict
    /\ collateral_weights = EmptyDict
    /\ main_leverage_info = DefaultLeverageInfo
    /\ market_pc = "get_markets"
    /\ spawn_pc = "cond"
    /\ _connections = EmptyDict
    /\ _sub_processes = EmptyDict
    /\ _sub_process_notify_events = EmptyDict
    /\ _sub_process_listen_tasks = EmptyDict
    /\ spawn_count = [c \in Coins |-> 0]
    /\ alive = {}
    /\ joined = {}
    /\ closed = {}
    /\ network = "started"
    /\ stop_raised = ""
    /\ cancelled = {}
    /\ inbox = [c \in Coins |-> <<>>]
    /\ received = [c \in Coins |-> {}]
    /\ responses = [c \in Coins |-> <<>>]
    /\ listen_raised = ""
    /\ sends = 0
    /\ fs_config \in FsConfigs
    /\ fs_request = NoFsRequest
    /\ fs_outcome = NoFsOutcome
    /\ fs_in_progress = "none"
    /\ loop_name = ""
    /\ loop_pc = "not_started"
    /\ loop_cancel = "none"
    /\ loop_raised = ""
    /\ loop_failures = 0
    /\ process_exited = FALSE
    /\ cancelled_is_exception = FALSE
    /\ account_info_failures = 0
    /\ current = ""
    /\ lock = ""
    /\ tasks = [t \in Tasks |-> NoCall]
    /\ outbox = [ch \in Channels |-> <<>>]
    /\ trading_rules = {}
    /\ broadcasts = 0

\* _update_hedge_pair from the whitelist handling on: pairs are the coins with an
\* enabled spot and future market, low_volume_coins those of them below the
\* volume floor, coins_that_have_position the coins the account holds
NewHedgePairs(pairs, low_volume_coins, coins_that_have_position) ==
    LET fresh == [c \in pairs |-> "DEFAULT"]
        low_weight_coins ==
            {c \in pairs : \/ c \notin DOMAIN collateral_weights
                           \/ collateral_weights[c] < MinCollateralWeight}
        listed ==
            IF whitelist = {}
            THEN Updated(hedge_pairs, fresh)
            ELSE Updated(Updated(hedge_pairs,
                                 [c \in whitelist \cap pairs |-> "DEFAULT"]),
                         [c \in coins_that_have_position \ whitelist |-> "CLOSE_ONLY"])
        banned == blacklist \cup low_volume_coins \cup low_weight_coins
    IN [c \in (DOMAIN listed) \ (banned \ coins_that_have_position) |->
           IF c \in banned THEN "CLOSE_ONLY" ELSE listed[c]]

\* UpdateHedgePair without the notify_all
UpdateHedgePairSilent(pairs, low_volume_coins, coins_that_have_position) ==
    /\ hedge_pairs' = NewHedgePairs(pairs, low_volume_coins, coins_that_have_position)
    /\ UNCHANGED spawn_pc

\* the end of _update_hedge_pair: the new hedge pairs, then notify_all wakes
\* _spawn_sub_processes when it waits on the condition
UpdateHedgePair(pairs, low_volume_coins, coins_that_have_position) ==
    /\ hedge_pairs' = NewHedgePairs(pairs, low_volume_coins, coins_that_have_position)
    /\ spawn_pc' = IF spawn_pc = "cond" THEN "notified" ELSE spawn_pc

\* get_markets returned: _update_trading_rule, then _update_hedge_pair up to
\* its requests for the balances and the positions
MarketFetched ==
    /\ market_pc = "get_markets"
    /\ trading_rules_ready' = TRUE
    /\ market_pc' = "get_positions"
    /\ UNCHANGED <<fund_vars, stop_vars, pipe_vars, fs_vars,
                   interest_rate_ready, fee_rate_ready,
                   collateral_weights_ready, account_info_ready, whitelist, blacklist,
                   hedge_pairs, collateral_weights, main_leverage_info, spawn_pc,
                   _connections, _sub_processes, _sub_process_notify_events,
                   _sub_process_listen_tasks, spawn_count, alive, joined, closed>>

\* the balances and positions returned: _update_hedge_pair goes on to the end,
\* or waits for the collateral weights
MarketPositionsFetched ==
    /\ market_pc = "get_positions"
    /\ IF collateral_weights_ready
       THEN /\ \E pairs \in SUBSET Coins, coins_that_have_position \in SUBSET Coins :
                 \E low_volume_coins \in SUBSET pairs :
                     UpdateHedgePair(pairs, low_volume_coins, coins_that_have_position)
            /\ market_pc' = "get_markets"
       ELSE /\ market_pc' = "collateral_weights"
            /\ UNCHANGED <<hedge_pairs, spawn_pc>>
    /\ UNCHANGED <<fund_vars, stop_vars, pipe_vars, fs_vars,
                   trading_rules_ready, interest_rate_ready, fee_rate_ready,
                   collateral_weights_ready, account_info_ready, whitelist, blacklist,
                   collateral_weights, main_leverage_info,
                   _connections, _sub_processes, _sub_process_notify_events,
                   _sub_process_listen_tasks, spawn_count, alive, joined, closed>>

\* _update_hedge_pair resumes once the collateral weights are ready
MarketWeightsReady ==
    /\ market_pc = "collateral_weights"
    /\ collateral_weights_ready
    /\ \E pairs \in SUBSET Coins, coins_that_have_position \in SUBSET Coins :
          \E low_volume_coins \in SUBSET pairs :
              UpdateHedgePair(pairs, low_volume_coins, coins_that_have_position)
    /\ market_pc' = "get_markets"
    /\ UNCHANGED <<fund_vars, stop_vars, pipe_vars, fs_vars,
                   trading_rules_ready, interest_rate_ready, fee_rate_ready,
                   collateral_weights_ready, account_info_ready, whitelist, blacklist,
                   collateral_weights, main_leverage_info,
                   _connections, _sub_processes, _sub_process_notify_events,
                   _sub_process_listen_tasks, spawn_count, alive, joined, closed>>

\* one iteration of _interest_rate_polling_loop that got rates
InterestRatePolled ==
    /\ interest_rate_ready' = TRUE
    /\ UNCHANGED <<fund_vars, stop_vars, pipe_vars, fs_vars,
                   trading_rules_ready, fee_rate_ready,
                   collateral_weights_ready, account_info_ready, whitelist, blacklist,
                   hedge_pairs, collateral_weights, main_leverage_info, market_pc,
                   spawn_pc, _connections, _sub_processes, _sub_process_notify_events,
                   _sub_process_listen_tasks, spawn_count, alive, joined, closed>>

\* one iteration of _fee_rate_polling_loop
FeeRatePolled ==
    /\ fee_rate_ready' = TRUE
    /\ UNCHANGED <<fund_vars, stop_vars, pipe_vars, fs_vars,
                   trading_rules_ready, interest_rate_ready,
                   collateral_weights_ready, account_info_ready, whitelist, blacklist,
                   hedge_pairs, collateral_weights, main_leverage_info, market_pc,
                   spawn_pc, _connections, _sub_processes, _sub_process_notify_events,
                   _sub_process_listen_tasks, spawn_count, alive, joined, closed>>

\* one iteration of _collateral_weight_polling_loop: get_coins returned the
\* weights of some coins
CollateralWeightPolled ==
    /\ \E listed \in SUBSET Coins :
          \E weights \in [listed -> WeightValues] :
              collateral_weights' = Updated(collateral_weights, weights)
    /\ collateral_weights_ready' = TRUE
    /\ UNCHANGED <<fund_vars, stop_vars, pipe_vars, fs_vars,
                   trading_rules_ready, interest_rate_ready, fee_rate_ready,
                   account_info_ready, whitelist, blacklist,
                   hedge_pairs, main_leverage_info, market_pc,
                   spawn_pc, _connections, _sub_processes, _sub_process_notify_events,
                   _sub_process_listen_tasks, spawn_count, alive, joined, closed>>

\* _update_account_info
_update_account_info(account_info) ==
    /\ main_leverage_info' = FtxLeverageInfo(account_info.leverage,
                                             account_info.totalAccountValue,
                                             account_info.totalPositionSize)
    /\ account_info_ready' = TRUE

\* one iteration of _account_info_polling_loop: get_account returned account_info
AccountInfoPolled ==
    /\ \E account_info \in PolledAccountInfos :
          /\ ExactFor(leverage_limit, account_info)
          /\ IF account_info.totalAccountValue = 0
             THEN \* _update_account_info raises, the loop logs it and sleeps
                  UNCHANGED <<fund_vars, main_leverage_info, account_info_ready>>
             ELSE /\ _update_account_info(account_info)
                  /\ update_account_state(account_info)
                  /\ UNCHANGED calls
    /\ UNCHANGED <<stop_vars, pipe_vars, fs_vars,
                   trading_rules_ready, interest_rate_ready, fee_rate_ready,
                   collateral_weights_ready, whitelist, blacklist,
                   hedge_pairs, collateral_weights, market_pc,
                   spawn_pc, _connections, _sub_processes, _sub_process_notify_events,
                   _sub_process_listen_tasks, spawn_count, alive, joined, closed>>

\* one iteration of _account_info_polling_loop whose snapshot has a zero
\* account value: the division of _update_account_info raises before
\* leverage_info is assigned and the event set, update_account_state is not
\* reached, the loop logs the exception and sleeps
AccountInfoPollRaises ==
    /\ account_info_failures < MaxFailures
    /\ \E account_info \in PolledAccountInfos :
          /\ account_info.totalAccountValue = 0
          /\ account_info_failures' = account_info_failures + 1
    /\ UNCHANGED <<fund_vars, pipe_vars, fs_vars, network, stop_raised, cancelled,
                   loop_vars, atomic_vars, main_leverage_info, account_info_ready,
                   trading_rules_ready, interest_rate_ready, fee_rate_ready,
                   collateral_weights_ready, whitelist, blacklist,
                   hedge_pairs, collateral_weights, market_pc,
                   spawn_pc, _connections, _sub_processes, _sub_process_notify_events,
                   _sub_process_listen_tasks, spawn_count, alive, joined, closed>>

\* as SpawnBlockedOn, without the wait for the account info
SpawnBlockedOnFour ==
    IF ~trading_rules_ready THEN "trading_rules"
    ELSE IF ~interest_rate_ready THEN "interest_rate"
    ELSE IF ~fee_rate_ready THEN "fee_rate"
    ELSE IF ~collateral_weights_ready THEN "collateral_weights"
    ELSE "none"

\* the event _spawn_sub_processes waits for next, "none" when all five are set
SpawnBlockedOn ==
    IF ~trading_rules_ready THEN "trading_rules"
    ELSE IF ~interest_rate_ready THEN "interest_rate"
    ELSE IF ~fee_rate_ready THEN "fee_rate"
    ELSE IF ~collateral_weights_ready THEN "collateral_weights"
    ELSE IF ~account_info_ready THEN "account_info"
    ELSE "none"

\* the event spawn_pc names is set
EventSet(name) ==
    CASE name = "trading_rules" -> trading_rules_ready
      [] name = "interest_rate" -> interest_rate_ready
      [] name = "fee_rate" -> fee_rate_ready
      [] name = "collateral_weights" -> collateral_weights_ready
      [] name = "account_info" -> account_info_ready
      [] OTHER -> FALSE

\* the for loop of _spawn_sub_processes: the coins in done get a pipe, a notify
\* event, a sub process and a listen task; sub_process.start() raises for the
\* coin failed ("" when it raises for none), which has got its pipe and event
SpawnLoop(done, failed) ==
    LET touched == done \cup (IF failed = "" THEN {} ELSE {failed})
        number == [c \in touched |-> spawn_count[c] + 1]
    IN  /\ _connections' = Updated(_connections, number)
        /\ _sub_process_notify_events' =
               Updated(_sub_process_notify_events, [c \in touched |-> FALSE])
        /\ _sub_processes' = Updated(_sub_processes, [c \in done |-> number[c]])
        /\ _sub_process_listen_tasks' =
               Updated(_sub_process_listen_tasks, [c \in done |-> number[c]])
        /\ alive' = alive \cup {<<c, number[c]>> : c \in done}
        /\ spawn_count' = [c \in Coins |-> IF c \in touched THEN number[c]
                                           ELSE spawn_count[c]]

\* _spawn_sub_processes resumes: it passes the events that are set and either
\* blocks on the next one or runs the for loop and waits on the condition again
SpawnerResumes ==
    /\ \/ spawn_pc = "notified"
       \/ EventSet(spawn_pc)
    /\ IF SpawnBlockedOn # "none"
       THEN /\ spawn_pc' = SpawnBlockedOn
            /\ UNCHANGED <<_connections, _sub_processes, _sub_process_notify_events,
                           _sub_process_listen_tasks, spawn_count, alive>>
       ELSE /\ spawn_pc' = "cond"
            /\ LET to_spawn == (DOMAIN hedge_pairs) \ (DOMAIN _sub_processes)
               IN \/ SpawnLoop(to_spawn, "")
                  \/ \E failed \in to_spawn :
                        \E done \in SUBSET (to_spawn \ {failed}) :
                            /\ spawn_count[failed] + 1 < MaxSpawns
                            /\ SpawnLoop(done, failed)
    /\ UNCHANGED <<fund_vars, stop_vars, pipe_vars, fs_vars,
                   trading_rules_ready, interest_rate_ready, fee_rate_ready,
                   collateral_weights_ready, account_info_ready, whitelist, blacklist,
                   hedge_pairs, collateral_weights, main_leverage_info, market_pc,
                   joined, closed>>

\* the sub process of a coin ends
SubProcessDies ==
    /\ \E c \in DOMAIN _sub_processes :
          /\ <<c, _sub_processes[c]>> \in alive
          /\ spawn_count[c] < MaxSpawns
          /\ alive' = alive \ {<<c, _sub_processes[c]>>}
    /\ UNCHANGED <<fund_vars, stop_vars, pipe_vars, fs_vars,
                   trading_rules_ready, interest_rate_ready, fee_rate_ready,
                   collateral_weights_ready, account_info_ready, whitelist, blacklist,
                   hedge_pairs, collateral_weights, main_leverage_info, market_pc,
                   spawn_pc, _connections, _sub_processes, _sub_process_notify_events,
                   _sub_process_listen_tasks, spawn_count, joined, closed>>

\* as ReleaseDeadSubProcesses, without del self._sub_processes[coin]
ReleaseKeepsHandle ==
    /\ LET dead == {c \in (DOMAIN _sub_processes) \cap (DOMAIN _connections) :
                        <<c, _sub_processes[c]>> \notin alive}
       IN /\ joined' = joined \cup {<<c, _sub_processes[c]>> : c \in dead}
          /\ closed' = closed \cup {<<c, _connections[c]>> : c \in dead}
          /\ _connections' = Without(_connections, dead)
    /\ UNCHANGED <<fund_vars, stop_vars, pipe_vars, fs_vars,
                   trading_rules_ready, interest_rate_ready, fee_rate_ready,
                   collateral_weights_ready, account_info_ready, whitelist, blacklist,
                   hedge_pairs, collateral_weights, main_leverage_info, market_pc,
                   spawn_pc, _sub_processes, _sub_process_notify_events,
                   _sub_process_listen_tasks, spawn_count, alive>>

\* as ReleaseDeadSubProcesses, without the test of is_alive()
ReleaseAlsoAlive ==
    /\ LET dead == DOMAIN _sub_processes
       IN /\ joined' = joined \cup {<<c, _sub_processes[c]>> : c \in dead}
          /\ _sub_processes' = Without(_sub_processes, dead)
          /\ closed' = closed \cup {<<c, _connections[c]>> : c \in dead}
          /\ _connections' = Without(_connections, dead)
    /\ UNCHANGED <<fund_vars, stop_vars, pipe_vars, fs_vars,
                   trading_rules_ready, interest_rate_ready, fee_rate_ready,
                   collateral_weights_ready, account_info_ready, whitelist, blacklist,
                   hedge_pairs, collateral_weights, main_leverage_info, market_pc,
                   spawn_pc, _sub_process_notify_events, _sub_process_listen_tasks,
                   spawn_count, alive>>

\* one scan of _release_dead_sub_process_loop
ReleaseDeadSubProcesses ==
    /\ LET dead == {c \in DOMAIN _sub_processes : <<c, _sub_processes[c]>> \notin alive}
       IN /\ joined' = joined \cup {<<c, _sub_processes[c]>> : c \in dead}
          /\ _sub_processes' = Without(_sub_processes, dead)
          /\ closed' = closed \cup {<<c, _connections[c]>> : c \in dead}
          /\ _connections' = Without(_connections, dead)
    /\ UNCHANGED <<fund_vars, stop_vars, pipe_vars, fs_vars,
                   trading_rules_ready, interest_rate_ready, fee_rate_ready,
                   collateral_weights_ready, account_info_ready, whitelist, blacklist,
                   hedge_pairs, collateral_weights, main_leverage_info, market_pc,
                   spawn_pc, _sub_process_notify_events, _sub_process_listen_tasks,
                   spawn_count, alive>>

NextSupervisor ==
    \/ MarketFetched
    \/ MarketPositionsFetched
    \/ MarketWeightsReady
    \/ InterestRatePolled
    \/ FeeRatePolled
    \/ CollateralWeightPolled
    \/ AccountInfoPolled
    \/ SpawnerResumes
    \/ SubProcessDies
    \/ ReleaseDeadSubProcesses

Init == InitFund /\ InitMain

\* the FundManager alone, with an empty whitelist and blacklist
InitLedger == Init /\ whitelist = {} /\ blacklist = {} /\ fs_config = FsDisabled

\* the FundManager under any sequence of calls
SpecLedger == InitLedger /\ [][NextLedger]_vars

\* the FundManager called directly and by the account poller
NextAccount ==
    \/ RefreshAccount /\ UNCHANGED main_vars
    \/ RequestAllocation /\ UNCHANGED main_vars
    \/ AccountInfoPolled
    \/ AccountInfoPollRaises

SpecAccount == InitLedger /\ [][NextAccount]_vars

\* the pollers, the spawner and the reaper of MainProcess, with no leverage
\* limit and an empty whitelist and blacklist
InitSupervisor ==
    Init /\ leverage_limit = NoLimit /\ whitelist = {} /\ blacklist = {}
         /\ fs_config = FsDisabled

SpecSupervisor == InitSupervisor /\ [][NextSupervisor]_vars

\* the market poller, the spawner and the reaper are asyncio tasks that sleep
\* between their iterations: each of them runs again and again
SpecSupervisorFair ==
    /\ SpecSupervisor
    /\ WF_vars(MarketFetched)
    /\ WF_vars(MarketPositionsFetched)
    /\ WF_vars(SpawnerResumes)
    /\ WF_vars(ReleaseDeadSubProcesses)

(***************************************************************************)
(* MainProcess: the messages of the sub processes                          *)
(***************************************************************************)
\* the methods that FundManager defines
FundManagerMethods ==
    {"update_account_state", "update_usd_state", "request_for_open",
     "_get_free_collateral_with_leverage_limit", "handle_open_order_filled"}

\* the messages a sub process writes to its pipe
PipeMessages ==
    [type : {"FtxFundRequestMessage"}, id : Ids, fund_needed : PipeFundNeededValues,
     spot_notional_value : {0}, fund_used : {0}]
    \cup [type : {"FtxFundOpenFilledMessage"}, id : Ids, fund_needed : {0},
          spot_notional_value : {0}, fund_used : PipeFundUsedValues]

\* the sub process of a coin writes a message to its end of the pipe; the
\* reader callback of the event loop sets the notify event of the coin
WorkerSends ==
    /\ \E c \in DOMAIN _sub_processes : \E msg \in PipeMessages :
          /\ <<c, _sub_processes[c]>> \in alive
          /\ Len(inbox[c]) < MaxInbox
          /\ sends < MaxSends
          /\ sends' = sends + 1
          /\ inbox' = [inbox EXCEPT ![c] = Append(@, msg)]
          /\ _sub_process_notify_events' = Updated(_sub_process_notify_events,
                                                   [k \in {c} |-> TRUE])
    /\ UNCHANGED <<fund_vars, stop_vars, fs_vars, received, responses, listen_raised,
                   chan_vars,
                   trading_rules_ready, interest_rate_ready, fee_rate_ready,
                   collateral_weights_ready, account_info_ready, whitelist, blacklist,
                   hedge_pairs, collateral_weights, main_leverage_info, market_pc,
                   spawn_pc, _connections, _sub_processes,
                   _sub_process_listen_tasks, spawn_count, alive, joined, closed>>

\* ListenTaskRuns for a loop that an exception of a handler ends
ListenTaskRunsUntilFailure(c) ==
    /\ <<c, _sub_process_listen_tasks[c]>> \notin closed
    /\ <<c, _sub_process_listen_tasks[c]>> \notin cancelled
    /\ listen_raised = ""

\* the while loop of _listen_sub_process_msg(c) runs: its pipe is open and
\* the task was not cancelled; any other exception is logged inside the loop
ListenTaskRuns(c) ==
    /\ <<c, _sub_process_listen_tasks[c]>> \notin closed
    /\ <<c, _sub_process_listen_tasks[c]>> \notin cancelled

\* one iteration of _listen_sub_process_msg(coin) that finds a message: a fund
\* request is passed to fund_manager.request_for_budget and the response written
\* to the same pipe, a fill report to handle_open_order_filled; an exception is
\* logged, and the notify event is then not cleared
ListenSubProcessMsg ==
    /\ \E c \in DOMAIN _sub_process_listen_tasks :
          /\ ListenTaskRuns(c)
          /\ inbox[c] # <<>>
          /\ LET msg == Head(inbox[c])
                 clear == Updated(_sub_process_notify_events,
                                  [k \in {c} |-> Tail(inbox[c]) # <<>>])
             IN /\ inbox' = [inbox EXCEPT ![c] = Tail(@)]
                /\ IF msg.type = "FtxFundRequestMessage"
                   THEN /\ received' = [received EXCEPT ![c] = @ \cup {msg.id}]
                        /\ IF "request_for_budget" \in FundManagerMethods
                           THEN /\ request_for_open(msg)
                                /\ UNCHANGED calls
                                /\ responses' =
                                       IF raised' = ""
                                       THEN [responses EXCEPT ![c] = Append(@, response')]
                                       ELSE responses
                                /\ listen_raised' = raised'
                                /\ _sub_process_notify_events' =
                                       IF raised' = "" THEN clear
                                       ELSE _sub_process_notify_events
                           ELSE /\ listen_raised' = "AttributeError"
                                /\ UNCHANGED <<fund_vars, responses,
                                               _sub_process_notify_events>>
                   ELSE /\ handle_open_order_filled(msg)
                        /\ UNCHANGED calls
                        /\ listen_raised' = ""
                        /\ _sub_process_notify_events' = clear
                        /\ UNCHANGED <<received, responses>>
    /\ UNCHANGED <<stop_vars, fs_vars, sends, chan_vars,
                   trading_rules_ready, interest_rate_ready, fee_rate_ready,
                   collateral_weights_ready, account_info_ready, whitelist, blacklist,
                   hedge_pairs, collateral_weights, main_leverage_info, market_pc,
                   spawn_pc, _connections, _sub_processes,
                   _sub_process_listen_tasks, spawn_count, alive, joined, closed>>

\* the pollers and the spawner with sub processes that write to their pipes
NextListener ==
    \/ MarketFetched
    \/ MarketPositionsFetched
    \/ MarketWeightsReady
    \/ InterestRatePolled
    \/ FeeRatePolled
    \/ CollateralWeightPolled
    \/ AccountInfoPolled
    \/ SpawnerResumes
    \/ WorkerSends
    \/ ListenSubProcessMsg

\* a listen task is woken whenever its pipe is readable
SpecListenerFair ==
    /\ InitSupervisor
    /\ [][NextListener]_vars
    /\ WF_vars(ListenSubProcessMsg)

(***************************************************************************)
(* MainProcess.stop_network                                                *)
(***************************************************************************)
\* the listen tasks that a call of _stop_all_sub_process_listen_tasks cancels:
\* it is a coroutine function, so its body runs only when the call is awaited
StoppedListenTasks(awaited) ==
    IF awaited
    THEN {<<c, _sub_process_listen_tasks[c]>> : c \in DOMAIN _sub_process_listen_tasks}
    ELSE {}

\* _stop_all_sub_processes: the for loop iterates self._sub_processes and deletes
\* from it, so its first iteration (for coin first) runs to its end and the
\* iterator then raises RuntimeError; with no sub process the loop does nothing
_stop_all_sub_processes ==
    IF DOMAIN _sub_processes = {}
    THEN /\ stop_raised' = ""
         /\ UNCHANGED <<_sub_processes, _connections, alive, joined, closed>>
    ELSE \E first \in DOMAIN _sub_processes :
            /\ alive' = alive \ {<<first, _sub_processes[first]>>}
            /\ joined' = joined \cup {<<first, _sub_processes[first]>>}
            /\ _sub_processes' = Without(_sub_processes, {first})
            /\ closed' = closed \cup {<<first, _connections[first]>>}
            /\ _connections' = Without(_connections, {first})
            /\ stop_raised' = "RuntimeError"

\* task.cancel() of stop_network on the task of the observed loop: a task that
\* runs gets CancelledError at the await it is suspended at
CancelLoopTask ==
    /\ loop_cancel' = IF loop_pc \in {"not_started", "ended"}
                      THEN loop_cancel
                      ELSE "requested"
    /\ UNCHANGED <<loop_name, loop_pc, loop_raised, loop_failures, process_exited,
                   cancelled_is_exception, account_info_failures, atomic_vars>>

\* stop_network: the polling tasks are cancelled, _stop_all_sub_process_listen_tasks
\* is called without await, then _stop_all_sub_processes runs
StopNetwork ==
    /\ network' = "stopped"
    /\ CancelLoopTask
    /\ cancelled' = cancelled \cup StoppedListenTasks(FALSE)
    /\ _stop_all_sub_processes
    /\ UNCHANGED <<fund_vars, pipe_vars, fs_vars,
                   trading_rules_ready, interest_rate_ready, fee_rate_ready,
                   collateral_weights_ready, account_info_ready, whitelist, blacklist,
                   hedge_pairs, collateral_weights, main_leverage_info, market_pc,
                   spawn_pc, _sub_process_notify_events, _sub_process_listen_tasks,
                   spawn_count>>

\* the tasks of the supervisor run until stop_network is called, which can be
\* called again
NextShutdown ==
    \/ network = "started" /\ NextSupervisor
    \/ StopNetwork

SpecShutdown == InitSupervisor /\ [][NextShutdown]_vars

(***************************************************************************)
(* MainProcess: the market poller alone, under any whitelist and blacklist *)
(***************************************************************************)
InitEligibility == Init /\ leverage_limit = NoLimit /\ fs_config = FsDisabled

NextEligibility ==
    \/ MarketFetched
    \/ MarketPositionsFetched
    \/ MarketWeightsReady
    \/ CollateralWeightPolled

SpecEligibility == InitEligibility /\ [][NextEligibility]_vars

(***************************************************************************)
(* MainProcess._apply_funding_service                                      *)
(*                                                                         *)
(* The sized amounts are quotients by target_leverage + 1: an amount is    *)
(* kept as the exact fraction <<numerator, denominator>> of USD, and the   *)
(* amount requested from the funding service, round(float(amount), 2), is  *)
(* in cents.                                                               *)
(***************************************************************************)
FsAccountInfos ==
    [freeCollateral : {600}, leverage : MaxLeverageValues,
     totalAccountValue : AccountValues, totalPositionSize : FsPositionValues]

\* the nearest integer to n / d for n >= 0 and d > 0, the even one of two
\* nearest; the denominators of the model are odd, so that no quotient is
\* halfway between two cents
RoundHalfEven(n, d) ==
    LET q == n \div d
        r == n % d
    IN IF 2 * r < d THEN q
       ELSE IF 2 * r > d THEN q + 1
       ELSE IF q % 2 = 0 THEN q ELSE q + 1

\* round(float(amount), 2), in cents
Round2(amount) == RoundHalfEven(100 * amount[1], amount[2])

\* amount > usd for a fraction amount and a whole number of USD
Exceeds(amount, usd) == amount[1] > usd * amount[2]

\* _get_last_24h_net_deposit for caches that hold deposits of deposited USD
\* and withdrawals of withdrawn USD
_get_last_24h_net_deposit(deposited, withdrawn) == max(0, deposited - withdrawn)

\* as DepositAmount, without the cap by the balance of the funding account
DepositAmountUncapped(position, account_value, balance) ==
    LET target_leverage == fs_config.target_leverage
    IN <<position - target_leverage * account_value, target_leverage + 1>>

\* deposit_amount of lines 994-997
DepositAmount(position, account_value, balance) ==
    LET target_leverage == fs_config.target_leverage
    IN <<min(position - target_leverage * account_value,
             balance * (target_leverage + 1)),
         target_leverage + 1>>

\* as WithdrawAmount, without keeping min_remain in the account
WithdrawAmountNoRemain(position, account_value, available) ==
    LET target_leverage == fs_config.target_leverage
    IN <<min(target_leverage * account_value - position,
             max(0, available) * (target_leverage + 1)),
         target_leverage + 1>>

\* withdraw_amount of lines 1042-1053
WithdrawAmount(position, account_value, available) ==
    LET target_leverage == fs_config.target_leverage
        available_usd_for_withdraw == max(0, available - fs_config.min_remain)
    IN <<min(target_leverage * account_value - position,
             available_usd_for_withdraw * (target_leverage + 1)),
         target_leverage + 1>>

\* the request one run of _apply_funding_service makes after its
\* _update_account_info(account_info) returned: balance_ok is whether the
\* balance of the funding account could be read
\* DepositBranch that is also taken at the upper bound
DepositBranchAtBound(position, account_value) ==
    10 * position >= fs_config.leverage_upper_bound * account_value

\* current_leverage > leverage_upper_bound (bounds in tenths): the deposit
\* branch of _apply_funding_service
DepositBranch(position, account_value) ==
    10 * position > fs_config.leverage_upper_bound * account_value

\* current_leverage < leverage_lower_bound, tested when the deposit branch is
\* not taken: the withdraw branch of _apply_funding_service
WithdrawBranch(position, account_value) ==
    /\ ~DepositBranch(position, account_value)
    /\ 10 * position < fs_config.leverage_lower_bound * account_value

FsRequestOf(account_info, available, balance_ok, balance, deposited, withdrawn) ==
    LET position == account_info.totalPositionSize
        account_value == account_info.totalAccountValue
        net_deposit == _get_last_24h_net_deposit(deposited, withdrawn)
        quote_for_deposit == fs_config.daily_max_net_deposit - net_deposit
        deposit_amount == DepositAmount(position, account_value, balance)
        withdraw_amount == WithdrawAmount(position, account_value, available)
    IN IF DepositBranch(position, account_value)
       THEN IF \/ ~balance_ok
               \/ quote_for_deposit < fs_config.min_deposit_amount
               \/ balance < fs_config.min_deposit_amount
               \/ ~Exceeds(deposit_amount, fs_config.min_deposit_amount)
            THEN NoFsRequest
            ELSE FsRequest("deposit", Round2(deposit_amount), position,
                           account_value, balance, net_deposit, 0)
       ELSE IF WithdrawBranch(position, account_value)
       THEN IF Exceeds(withdraw_amount, fs_config.min_withdraw_amount)
            THEN FsRequest("withdraw", Round2(withdraw_amount), position,
                           account_value, 0, 0, available)
            ELSE NoFsRequest
       ELSE NoFsRequest

\* Submissions that calls the funding service again when it raised
SubmissionsRetried(request, rejected) ==
    IF request.kind = "none" THEN 0 ELSE IF rejected THEN 2 ELSE 1

\* the number of calls of request_deposit and request_withdraw a run makes for
\* the request it computed: one call inside a try whose except clause logs
Submissions(request, rejected) ==
    IF request.kind = "none" THEN 0 ELSE 1

\* the worker status get_worker_status returns: WORKER_STATUS_FINISH,
\* WORKER_STATUS_PROC, or any other
WorkerStatuses == {"FINISH", "PROC", "OTHER"}

\* one run of _apply_funding_service; rejected: request_deposit or
\* request_withdraw raises; status: the worker status polled once after an
\* accepted request; when it is FINISH the account is read again (new_info)
_apply_funding_service(account_info, available, balance_ok, balance, deposited, withdrawn, rejected, status, new_info) ==
    IF ~fs_config.enable \/ account_info.totalAccountValue = 0
    THEN \* returns at once, or _update_account_info raises
         /\ fs_request' = NoFsRequest
         /\ fs_outcome' = NoFsOutcome
         /\ UNCHANGED <<main_leverage_info, account_info_ready, fs_in_progress>>
    ELSE LET request == FsRequestOf(account_info, available, balance_ok, balance,
                                    deposited, withdrawn)
             submitted == Submissions(request, rejected)
             accepted == submitted >= 1 /\ ~rejected
         IN /\ fs_request' = request
            /\ fs_outcome' = FsOutcome(account_info.totalPositionSize,
                                       account_info.totalAccountValue,
                                       submitted,
                                       submitted >= 1 /\ rejected,
                                       IF accepted THEN status ELSE "",
                                       fs_in_progress)
            /\ fs_in_progress' = IF accepted /\ status = "PROC"
                                 THEN request.kind
                                 ELSE fs_in_progress
            /\ IF accepted /\ status = "FINISH" /\ new_info.totalAccountValue # 0
               THEN _update_account_info(new_info)
               ELSE _update_account_info(account_info)

\* one iteration of _apply_funding_service_loop, which starts once the account
\* info is ready
ApplyFundingService ==
    /\ account_info_ready
    /\ \E account_info \in FsAccountInfos :
          LET position == account_info.totalPositionSize
              account_value == account_info.totalAccountValue
              reads == fs_config.enable /\ account_value # 0
              \* the branch taken tells which values the run reads
              deposits == reads /\ DepositBranch(position, account_value)
              withdraws == reads /\ WithdrawBranch(position, account_value)
          IN \E available \in (IF withdraws THEN AvailableForWithdrawalValues ELSE {0}),
                balance \in (IF deposits THEN FundingBalanceValues ELSE {0}),
                balance_ok \in (IF deposits THEN BOOLEAN ELSE {TRUE}),
                deposited \in (IF deposits THEN DepositedValues ELSE {0}),
                withdrawn \in (IF deposits THEN WithdrawnValues ELSE {0}) :
                LET requests == /\ reads
                                /\ FsRequestOf(account_info, available, balance_ok, balance,
                                               deposited, withdrawn).kind # "none"
                IN \E rejected \in (IF requests THEN BOOLEAN ELSE {FALSE}),
                      status \in (IF requests THEN WorkerStatuses ELSE {"OTHER"}),
                      new_info \in (IF requests THEN PolledAccountInfos ELSE {account_info}) :
                      _apply_funding_service(account_info, available, balance_ok, balance,
                                             deposited, withdrawn, rejected, status, new_info)
    /\ UNCHANGED <<fund_vars, stop_vars, pipe_vars, fs_config,
                   trading_rules_ready, interest_rate_ready, fee_rate_ready,
                   collateral_weights_ready, whitelist, blacklist,
                   hedge_pairs, collateral_weights, market_pc,
                   spawn_pc, _connections, _sub_processes, _sub_process_notify_events,
                   _sub_process_listen_tasks, spawn_count, alive, joined, closed>>

\* the funding service completes the request it worked on
FundingWorkerFinishes ==
    /\ fs_in_progress # "none"
    /\ fs_in_progress' = "none"
    /\ UNCHANGED <<fund_vars, stop_vars, pipe_vars, fs_config, fs_request, fs_outcome,
                   trading_rules_ready, interest_rate_ready, fee_rate_ready,
                   collateral_weights_ready, account_info_ready, whitelist, blacklist,
                   hedge_pairs, collateral_weights, main_leverage_info, market_pc,
                   spawn_pc, _connections, _sub_processes, _sub_process_notify_events,
                   _sub_process_listen_tasks, spawn_count, alive, joined, closed>>

\* the account poller and the funding service loop, under any funding
\* service configuration
InitFunding == Init /\ leverage_limit = NoLimit /\ whitelist = {} /\ blacklist = {}

NextFunding ==
    \/ AccountInfoPolled
    \/ ApplyFundingService
    \/ FundingWorkerFinishes

SpecFunding == InitFunding /\ [][NextFunding]_vars

(***************************************************************************)
(* The periodic loops of start_network: exceptions and cancellation        *)
(***************************************************************************)
\* the loops with a try/except inside while True that has the clauses
\* CancelledError, BlockingIOError and Exception
PollerLoops ==
    {"_market_status_polling_loop", "_interest_rate_polling_loop",
     "_fee_rate_polling_loop", "_collateral_weight_polling_loop",
     "_account_info_polling_loop"}

\* the periodic loops start_network creates a task for
PeriodicLoops ==
    PollerLoops \cup {"_release_dead_sub_process_loop", "_log_summary_polling_loop",
                      "_apply_funding_service_loop"}

\* ExitsOnBlockingIO of a loop without a BlockingIOError clause
ExitsOnNothing(l) == FALSE

\* the loop has the clause 'except BlockingIOError: sys.exit(1)'
ExitsOnBlockingIO(l) == l \in PollerLoops

\* the await of the loop that start_network's create_task runs to:
\* _log_summary_polling_loop sleeps 60 seconds and _apply_funding_service_loop waits
\* for the account info before their try statements,
\* _release_dead_sub_process_loop awaits nothing but its sleep
FirstAwait(l) ==
    IF l \in {"_log_summary_polling_loop", "_apply_funding_service_loop"} THEN "start"
    ELSE IF l = "_release_dead_sub_process_loop" THEN "sleep"
    ELSE "call"

\* the await the loop reaches after 'except Exception' caught an exception:
\* the sleep of the handler, the sleep of the finally clause of
\* _apply_funding_service_loop
AwaitAfterException(l) ==
    IF l = "_apply_funding_service_loop" THEN "sleep" ELSE "backoff"

\* the await the loop is at after CancelledError was thrown into it at pc:
\* 'except asyncio.CancelledError: raise' ends the task, unless an
\* 'except Exception' of an inner try statement comes first and
\* CancelledError is an Exception, or a finally clause awaits a sleep
AwaitAfterCancel(l, pc) ==
    IF pc = "start" THEN "ended"
    ELSE IF l = "_apply_funding_service_loop" /\ pc = "call"
    THEN IF cancelled_is_exception THEN "sleep" ELSE "sleep_then_raise"
    ELSE IF /\ l = "_log_summary_polling_loop"
            /\ pc \in {"call", "sleep"}
            /\ cancelled_is_exception
    THEN "backoff"
    ELSE "ended"

\* create_task of start_network for one of the periodic loops, which runs to
\* its first await
LoopStarts ==
    /\ loop_pc = "not_started"
    /\ network = "started"
    /\ \E l \in PeriodicLoops :
          /\ loop_name' = l
          /\ loop_pc' = FirstAwait(l)
    /\ cancelled_is_exception' \in BOOLEAN
    /\ UNCHANGED <<loop_cancel, loop_raised, loop_failures, process_exited>>
    /\ UNCHANGED <<fund_vars, pipe_vars, fs_vars, network, stop_raised, cancelled,
                   account_info_failures, atomic_vars,
                   trading_rules_ready, interest_rate_ready, fee_rate_ready,
                   collateral_weights_ready, account_info_ready, whitelist, blacklist,
                   hedge_pairs, collateral_weights, main_leverage_info, market_pc,
                   spawn_pc, _connections, _sub_processes, _sub_process_notify_events,
                   _sub_process_listen_tasks, spawn_count, alive, joined, closed>>

\* the loop can take a step of its own: the process runs and no CancelledError
\* is about to be thrown into the task
LoopRuns ==
    /\ ~process_exited
    /\ loop_cancel # "requested"

\* what a step of the observed loop leaves alone
LoopFrame ==
    UNCHANGED <<fund_vars, pipe_vars, fs_vars, network, stop_raised, cancelled,
                loop_name, cancelled_is_exception, account_info_failures, atomic_vars,
                trading_rules_ready, interest_rate_ready, fee_rate_ready,
                collateral_weights_ready, account_info_ready, whitelist, blacklist,
                hedge_pairs, collateral_weights, main_leverage_info, market_pc,
                spawn_pc, _connections, _sub_processes, _sub_process_notify_events,
                _sub_process_listen_tasks, spawn_count, alive, joined, closed>>

\* a sleep or the wait before the try statement ends: the loop runs to its
\* next await, the external call of the next iteration (the sleep, for
\* _release_dead_sub_process_loop); a sleep of a finally clause that a
\* CancelledError waits behind ends the task
LoopWakes ==
    /\ LoopRuns
    /\ loop_pc \in {"start", "sleep", "backoff", "sleep_then_raise"}
    /\ loop_pc' = IF loop_pc = "sleep_then_raise" THEN "ended"
                  ELSE IF loop_name = "_release_dead_sub_process_loop" THEN "sleep"
                  ELSE "call"
    /\ UNCHANGED <<loop_cancel, loop_raised, loop_failures, process_exited>>
    /\ LoopFrame

\* the external call of the iteration returns: the loop sleeps its interval
LoopCallReturns ==
    /\ LoopRuns
    /\ loop_pc = "call"
    /\ loop_pc' = "sleep"
    /\ loop_raised' = ""
    /\ UNCHANGED <<loop_cancel, loop_failures, process_exited>>
    /\ LoopFrame

\* the external call of the iteration raises BlockingIOError or another
\* Exception
LoopCallRaises ==
    /\ LoopRuns
    /\ loop_pc = "call"
    /\ loop_failures < MaxFailures
    /\ loop_failures' = loop_failures + 1
    /\ \E error \in {"BlockingIOError", "Exception"} :
          /\ loop_raised' = error
          /\ IF error = "BlockingIOError" /\ ExitsOnBlockingIO(loop_name)
             THEN /\ process_exited' = TRUE
                  /\ UNCHANGED loop_pc
             ELSE /\ loop_pc' = AwaitAfterException(loop_name)
                  /\ UNCHANGED process_exited
    /\ UNCHANGED loop_cancel
    /\ LoopFrame

\* the CancelledError of task.cancel() is thrown into the loop at the await
\* it is suspended at
LoopCancelled ==
    /\ ~process_exited
    /\ loop_cancel = "requested"
    /\ loop_cancel' = "delivered"
    /\ loop_pc' = AwaitAfterCancel(loop_name, loop_pc)
    /\ UNCHANGED <<loop_raised, loop_failures, process_exited>>
    /\ LoopFrame

\* one periodic loop from the creation of its task, with stop_network
NextLoops ==
    \/ LoopStarts
    \/ LoopWakes
    \/ LoopCallReturns
    \/ LoopCallRaises
    \/ LoopCancelled
    \/ ~process_exited /\ StopNetwork

SpecLoops == InitSupervisor /\ [][NextLoops]_vars

(***************************************************************************)
(* FundManager.lock and the tasks of the event loop                        *)
(***************************************************************************)
\* the calls a task makes
LedgerCalls ==
    {LedgerCall("called", "update_account_state", info, NoMessage, 0, 0) :
        info \in PolledAccountInfos}
    \cup {LedgerCall("called", "update_usd_state", NoInfo, NoMessage, usd, 0) :
             usd \in FreeUsdValues}
    \cup {LedgerCall("called",
                     IF msg.type = "FtxFundRequestMessage"
                     THEN "request_for_open" ELSE "handle_open_order_filled",
                     NoInfo, msg, 0, 0) : msg \in PipeMessages}

\* SuspendsInLock of a method that awaits inside 'async with self.lock'
SuspendsInLockAlways(method) == TRUE

\* the body of 'async with self.lock' of the method has an await: none has
SuspendsInLock(method) == FALSE

\* the event loop runs task t, or can resume it
Scheduled(t) == current \in {t, ""}

\* what a step of a task in the FundManager leaves alone
TaskFrame ==
    UNCHANGED <<network, stop_raised, cancelled, loop_vars, account_info_failures,
                pipe_vars, fs_vars,
                trading_rules_ready, interest_rate_ready, fee_rate_ready,
                collateral_weights_ready, account_info_ready, whitelist, blacklist,
                hedge_pairs, collateral_weights, main_leverage_info, market_pc,
                spawn_pc, _connections, _sub_processes, _sub_process_notify_events,
                _sub_process_listen_tasks, spawn_count, alive, joined, closed>>

\* the event loop resumes task t, which calls a FundManager method
TaskCalls(t) ==
    /\ current = ""
    /\ tasks[t].stage = "idle"
    /\ calls < MaxCalls
    /\ \E call \in LedgerCalls : tasks' = [tasks EXCEPT ![t] = call]
    /\ current' = t
    /\ UNCHANGED <<fund_vars, lock>>
    /\ TaskFrame

\* the method runs to 'async with self.lock': update_account_state divides
\* first and raises on a zero account value; Lock.acquire takes a free lock
\* without suspending and suspends the task on a held one
TaskEnters(t) ==
    /\ Scheduled(t)
    /\ tasks[t].stage \in {"called", "waiting"}
    /\ IF /\ tasks[t].method = "update_account_state"
          /\ tasks[t].info.totalAccountValue = 0
       THEN /\ Call
            /\ update_account_state(tasks[t].info)
            /\ tasks' = [tasks EXCEPT ![t] = NoCall]
            /\ current' = ""
            /\ UNCHANGED lock
       ELSE IF lock = ""
       THEN /\ lock' = t
            /\ tasks' = [tasks EXCEPT ![t].stage = "locked"]
            /\ current' = t
            /\ UNCHANGED fund_vars
       ELSE /\ tasks[t].stage = "called"
            /\ tasks' = [tasks EXCEPT ![t].stage = "waiting"]
            /\ current' = ""
            /\ UNCHANGED <<fund_vars, lock>>
    /\ TaskFrame

\* update_account_state assigns the reported free collateral, from which it
\* then subtracts the freezes
TaskWrites(t) ==
    /\ Scheduled(t)
    /\ tasks[t].stage = "locked"
    /\ tasks[t].method = "update_account_state"
    /\ free_collateral' = tasks[t].info.freeCollateral
    /\ tasks' = [tasks EXCEPT ![t].stage = "partial"]
    /\ current' = IF SuspendsInLock(tasks[t].method) THEN "" ELSE t
    /\ UNCHANGED <<leverage_limit, free_usd, borrowed_usd, collateral_freeze,
                   leverage_info, response, op, raised, synced_collateral, released,
                   granted, calls, lock>>
    /\ TaskFrame

\* the method makes the rest of its assignments, leaves 'async with
\* self.lock' and returns to the task, which goes on to an await
TaskCompletes(t) ==
    /\ Scheduled(t)
    /\ lock = t
    /\ tasks[t].stage = IF tasks[t].method = "update_account_state"
                        THEN "partial" ELSE "locked"
    /\ Call
    /\ IF tasks[t].method = "update_account_state"
       THEN update_account_state(tasks[t].info)
       ELSE IF tasks[t].method = "update_usd_state"
       THEN update_usd_state(tasks[t].usd, tasks[t].spot_borrow)
       ELSE IF tasks[t].method = "request_for_open"
       THEN request_for_open(tasks[t].msg)
       ELSE handle_open_order_filled(tasks[t].msg)
    /\ lock' = ""
    /\ tasks' = [tasks EXCEPT ![t] = NoCall]
    /\ current' = ""
    /\ TaskFrame

NextAtomic ==
    \E t \in Tasks :
        \/ TaskCalls(t)
        \/ TaskEnters(t)
        \/ TaskWrites(t)
        \/ TaskCompletes(t)

\* the FundManager called by the tasks of the event loop
SpecAtomic == InitSupervisor /\ [][NextAtomic]_vars

(***************************************************************************)
(* MainProcess: the messages written to the pipes of the sub processes     *)
(***************************************************************************)
\* the market symbols, and what get_markets lists: both legs of every coin
\* but the future of ETH, which has no market in the season
Symbols == Coins \X {"spot", "future"}
MarketListings == {Symbols \ {<<"ETH", "future">>}}

\* a message written to conn1 of a pipe: its class and, for a trading rule,
\* the leg of the symbol
ChannelMessage(type, leg) == [type |-> type, leg |-> leg]

\* self._connections[coin] is the pipe ch
Registered(ch) == ch[1] \in DOMAIN _connections /\ _connections[ch[1]] = ch[2]

\* if self.trading_rules.get(spot): conn.send(...); the same for the future
TradingRuleMessages(c, rules) ==
    (IF <<c, "spot">> \in rules
     THEN <<ChannelMessage("FtxTradingRuleMessage", "spot")>> ELSE <<>>)
    \o (IF <<c, "future">> \in rules
        THEN <<ChannelMessage("FtxTradingRuleMessage", "future")>> ELSE <<>>)

\* if self.collateral_weights.get(coin): conn1.send(FtxCollateralWeightMessage)
CollateralWeightMessages(c, weights) ==
    IF c \in DOMAIN weights
    THEN <<ChannelMessage("FtxCollateralWeightMessage", "")>> ELSE <<>>

\* as NotifyParams, with the leverage left to the next account poll
NotifyParamsWithoutLeverage(c) ==
    TradingRuleMessages(c, trading_rules)
    \o <<ChannelMessage("FtxInterestRateMessage", ""),
         ChannelMessage("FtxFeeRateMessage", "")>>
    \o CollateralWeightMessages(c, collateral_weights)

\* "notify params" of _spawn_sub_processes: what is written to conn1 of the
\* pipe of coin c after sub_process.start()
NotifyParams(c) ==
    TradingRuleMessages(c, trading_rules)
    \o <<ChannelMessage("FtxInterestRateMessage", ""),
         ChannelMessage("FtxFeeRateMessage", "")>>
    \o CollateralWeightMessages(c, collateral_weights)
    \o <<ChannelMessage("FtxLeverageMessage", "")>>

\* the pipes after conn.send of msgs[c] to the pipe registered for each coin c
\* of coins
Sent(coins, msgs) ==
    [ch \in Channels |-> IF Registered(ch) /\ ch[1] \in coins
                         THEN outbox[ch] \o msgs[ch[1]] ELSE outbox[ch]]

\* a handler that writes to registered pipes runs: the writes that reach a
\* pipe are counted
CountBroadcast(coins) ==
    IF coins \cap DOMAIN _connections = {}
    THEN UNCHANGED broadcasts
    ELSE /\ broadcasts < MaxBroadcasts
         /\ broadcasts' = broadcasts + 1

\* get_markets returned in _market_status_polling_loop: _update_trading_rule
\* stores the rules of the listed symbols, sets the event and writes the rules
\* of both legs to every registered pipe
MarketFetchedSends ==
    /\ market_pc = "get_markets"
    /\ \E listed \in MarketListings :
          /\ trading_rules' = trading_rules \cup listed
          /\ outbox' = Sent(Coins, [c \in Coins |-> TradingRuleMessages(c, trading_rules')])
    /\ CountBroadcast(Coins)
    /\ trading_rules_ready' = TRUE
    /\ market_pc' = "get_positions"
    /\ UNCHANGED <<fund_vars, stop_vars, fs_vars, inbox, received, responses,
                   listen_raised, sends,
                   interest_rate_ready, fee_rate_ready,
                   collateral_weights_ready, account_info_ready, whitelist, blacklist,
                   hedge_pairs, collateral_weights, main_leverage_info, spawn_pc,
                   _connections, _sub_processes, _sub_process_notify_events,
                   _sub_process_listen_tasks, spawn_count, alive, joined, closed>>

\* one iteration of _interest_rate_polling_loop that got rates: the event is
\* set and the rate written to every registered pipe
InterestRateSent ==
    /\ interest_rate_ready' = TRUE
    /\ outbox' = Sent(Coins, [c \in Coins |-> <<ChannelMessage("FtxInterestRateMessage", "")>>])
    /\ CountBroadcast(Coins)
    /\ UNCHANGED <<fund_vars, stop_vars, fs_vars, inbox, received, responses,
                   listen_raised, sends, trading_rules,
                   trading_rules_ready, fee_rate_ready,
                   collateral_weights_ready, account_info_ready, whitelist, blacklist,
                   hedge_pairs, collateral_weights, main_leverage_info, market_pc,
                   spawn_pc, _connections, _sub_processes, _sub_process_notify_events,
                   _sub_process_listen_tasks, spawn_count, alive, joined, closed>>

\* one iteration of _fee_rate_polling_loop
FeeRateSent ==
    /\ fee_rate_ready' = TRUE
    /\ outbox' = Sent(Coins, [c \in Coins |-> <<ChannelMessage("FtxFeeRateMessage", "")>>])
    /\ CountBroadcast(Coins)
    /\ UNCHANGED <<fund_vars, stop_vars, fs_vars, inbox, received, responses,
                   listen_raised, sends, trading_rules,
                   trading_rules_ready, interest_rate_ready,
                   collateral_weights_ready, account_info_ready, whitelist, blacklist,
                   hedge_pairs, collateral_weights, main_leverage_info, market_pc,
                   spawn_pc, _connections, _sub_processes, _sub_process_notify_events,
                   _sub_process_listen_tasks, spawn_count, alive, joined, closed>>

\* one iteration of _collateral_weight_polling_loop: the weight of each listed
\* coin is stored and written to the pipe registered for the coin
CollateralWeightSent ==
    /\ \E listed \in SUBSET Coins :
          /\ \E weights \in [listed -> WeightValues] :
                collateral_weights' = Updated(collateral_weights, weights)
          /\ outbox' = Sent(listed, [c \in Coins |->
                                        <<ChannelMessage("FtxCollateralWeightMessage", "")>>])
          /\ CountBroadcast(listed)
    /\ collateral_weights_ready' = TRUE
    /\ UNCHANGED <<fund_vars, stop_vars, fs_vars, inbox, received, responses,
                   listen_raised, sends, trading_rules,
                   trading_rules_ready, interest_rate_ready, fee_rate_ready,
                   account_info_ready, whitelist, blacklist,
                   hedge_pairs, main_leverage_info, market_pc,
                   spawn_pc, _connections, _sub_processes, _sub_process_notify_events,
                   _sub_process_listen_tasks, spawn_count, alive, joined, closed>>

\* one iteration of _account_info_polling_loop: _update_account_info stores the
\* leverage, sets the event and writes the leverage to every registered pipe,
\* unless its division raises
AccountInfoSent ==
    /\ \E account_info \in PolledAccountInfos :
          /\ ExactFor(leverage_limit, account_info)
          /\ IF account_info.totalAccountValue = 0
             THEN UNCHANGED <<fund_vars, main_leverage_info, account_info_ready,
                              outbox, broadcasts>>
             ELSE /\ _update_account_info(account_info)
                  /\ outbox' = Sent(Coins, [c \in Coins |->
                                              <<ChannelMessage("FtxLeverageMessage", "")>>])
                  /\ CountBroadcast(Coins)
                  /\ update_account_state(account_info)
                  /\ UNCHANGED calls
    /\ UNCHANGED <<stop_vars, fs_vars, inbox, received, responses,
                   listen_raised, sends, trading_rules,
                   trading_rules_ready, interest_rate_ready, fee_rate_ready,
                   collateral_weights_ready, whitelist, blacklist,
                   hedge_pairs, collateral_weights, market_pc,
                   spawn_pc, _connections, _sub_processes, _sub_process_notify_events,
                   _sub_process_listen_tasks, spawn_count, alive, joined, closed>>

\* one iteration of _listen_ws_orders: the order of a market of coin c is
\* written to the pipe registered for c, if there is one
OrderEventSent ==
    /\ \E c \in Coins :
          /\ outbox' = Sent({c}, [k \in Coins |-> <<ChannelMessage("FtxOrderMessage", "")>>])
          /\ CountBroadcast({c})
    /\ UNCHANGED <<fund_vars, stop_vars, fs_vars, inbox, received, responses,
                   listen_raised, sends, trading_rules,
                   trading_rules_ready, interest_rate_ready, fee_rate_ready,
                   collateral_weights_ready, account_info_ready, whitelist, blacklist,
                   hedge_pairs, collateral_weights, main_leverage_info, market_pc,
                   spawn_pc, _connections, _sub_processes, _sub_process_notify_events,
                   _sub_process_listen_tasks, spawn_count, alive, joined, closed>>

\* the pipes after the for loop of _spawn_sub_processes started the sub
\* processes of the coins in done: the parameters are written to the new pipe
\* of each of them before the loop goes on
Replayed(done) ==
    [ch \in Channels |-> IF ch[1] \in done /\ ch[2] = spawn_count[ch[1]] + 1
                         THEN outbox[ch] \o NotifyParams(ch[1]) ELSE outbox[ch]]

\* _spawn_sub_processes resumes, as SpawnerResumes, with the writes to the pipes
SpawnerReplays ==
    /\ \/ spawn_pc = "notified"
       \/ EventSet(spawn_pc)
    /\ IF SpawnBlockedOn # "none"
       THEN /\ spawn_pc' = SpawnBlockedOn
            /\ UNCHANGED <<_connections, _sub_processes, _sub_process_notify_events,
                           _sub_process_listen_tasks, spawn_count, alive, outbox>>
       ELSE /\ spawn_pc' = "cond"
            /\ LET to_spawn == (DOMAIN hedge_pairs) \ (DOMAIN _sub_processes)
               IN \/ /\ SpawnLoop(to_spawn, "")
                     /\ outbox' = Replayed(to_spawn)
                  \/ \E failed \in to_spawn :
                        \E done \in SUBSET (to_spawn \ {failed}) :
                            /\ spawn_count[failed] + 1 < MaxSpawns
                            /\ SpawnLoop(done, failed)
                            /\ outbox' = Replayed(done)
    /\ UNCHANGED <<fund_vars, stop_vars, fs_vars, inbox, received, responses,
                   listen_raised, sends, trading_rules, broadcasts,
                   trading_rules_ready, interest_rate_ready, fee_rate_ready,
                   collateral_weights_ready, account_info_ready, whitelist, blacklist,
                   hedge_pairs, collateral_weights, main_leverage_info, market_pc,
                   joined, closed>>

\* the pollers, the spawner, the reaper and the order listener with the
\* messages they write to the pipes
NextChannels ==
    \/ MarketFetchedSends
    \/ MarketPositionsFetched
    \/ MarketWeightsReady
    \/ InterestRateSent
    \/ FeeRateSent
    \/ CollateralWeightSent
    \/ AccountInfoSent
    \/ OrderEventSent
    \/ SpawnerReplays
    \/ SubProcessDies
    \/ ReleaseDeadSubProcesses

SpecChannels == InitSupervisor /\ [][NextChannels]_vars

(***************************************************************************)
(* Claims about FundManager, checked under SpecLedger                      *)
(***************************************************************************)
\* the step is the call request_for_open(request) and the call returned
RequestReturns(request) == Call /\ request_for_open(request) /\ raised' = ""

\* the step is the call handle_open_order_filled(msg)
FillSettled(msg) == Call /\ handle_open_order_filled(msg)

\* C1: after every call of request_for_open and handle_open_order_filled on a
\* ledger with non-negative fields, free_collateral >= 0 and borrowed_usd >= 0.
C1_NonNegative == free_collateral >= 0 /\ borrowed_usd >= 0

\* C2: free_collateral plus the sum of all values of collateral_freeze is at most
\* the free collateral supplied to the most recent update_account_state.
C2_Conservation ==
    free_collateral + FreezeTotal(collateral_freeze) <= synced_collateral

\* C3: when the available collateral is <= 0, request_for_open returns
\* approve=False, fund_supply=0, borrow=0 with the id of the request, and
\* free_collateral, free_usd, borrowed_usd, collateral_freeze and leverage_info
\* are unchanged.
C3_DenialLaw ==
    [][\A request \in FtxFundRequestMessages :
          (/\ RequestReturns(request)
           /\ AvailableCollateral(leverage_limit, leverage_info, free_collateral) <= 0)
          => (/\ response' = [id |-> request.id, approve |-> FALSE,
                              fund_supply |-> 0, borrow |-> 0]
              /\ UNCHANGED ledger)]_vars

\* a request was just denied although free collateral is left: the leverage
\* limit leaves no room
C3_Witness ==
    /\ op = "request_for_open"
    /\ response.id # 0
    /\ ~response.approve
    /\ leverage_limit # NoLimit
    /\ free_collateral > 0

\* the available collateral as the claim C4 states it
C4_Available ==
    IF leverage_limit = NoLimit THEN free_collateral
    ELSE max(0, min(free_collateral,
                    (leverage_limit * leverage_info.account_value
                       - leverage_info.position_value) \div (leverage_limit - 1)))

\* C4: with a leverage limit L the available collateral request_for_open uses is
\* max(0, min(free_collateral, (L*account_value - position_value)/(L - 1))), and
\* free_collateral with no limit: a request is approved exactly when that value
\* is > 0 and is granted min(fund_needed, that value); L=3, account_value=1000,
\* position_value=2500, free_collateral=600, fund_needed=400 is granted 250.
C4_LeverageLimitClamp ==
    [][\A request \in FtxFundRequestMessages :
          RequestReturns(request)
          => (/\ response'.approve = (C4_Available > 0)
              /\ response'.fund_supply = min(request.fund_needed, max(0, C4_Available))
              /\ (/\ leverage_limit = 3
                  /\ leverage_info.account_value = 1000
                  /\ leverage_info.position_value = 2500
                  /\ free_collateral = 600
                  /\ request.fund_needed = 400) => response'.fund_supply = 250)]_vars

\* the example of C4 has just run: sync with free collateral 600, then the request
C4_Witness ==
    /\ calls = 2
    /\ op = "request_for_open"
    /\ leverage_limit = 3
    /\ synced_collateral = 600
    /\ leverage_info.account_value = 1000
    /\ leverage_info.position_value = 2500
    /\ response.approve
    /\ response.fund_supply = 250
    /\ collateral_freeze[response.id] = 250

\* C5: an approved request_for_open (available > 0) returns approve=True, the id
\* of the request and fund_supply = min(fund_needed, available), and sets
\* collateral_freeze[id] to that fund_supply.
C5_Grant ==
    [][\A request \in FtxFundRequestMessages :
          LET available ==
                  AvailableCollateral(leverage_limit, leverage_info, free_collateral)
          IN (RequestReturns(request) /\ available > 0)
             => (/\ response'.approve
                 /\ response'.id = request.id
                 /\ response'.fund_supply = min(request.fund_needed, available)
                 /\ request.id \in DOMAIN collateral_freeze'
                 /\ collateral_freeze'[request.id] = response'.fund_supply)]_vars

\* a request was approved under a leverage limit with a partial grant of 100
C5_Witness ==
    /\ op = "request_for_open"
    /\ response.approve
    /\ response.fund_supply = 100
    /\ collateral_freeze[response.id] = 100
    /\ leverage_limit = 3
    /\ free_collateral > 0

\* C6: a request whose grant consumes all available collateral
\* (fund_needed >= available > 0) returns borrow = fund_supply, whatever
\* spot_notional_value and free_usd are.
C6_FullExhaustionBorrow ==
    [][\A request \in FtxFundRequestMessages :
          LET available ==
                  AvailableCollateral(leverage_limit, leverage_info, free_collateral)
          IN (RequestReturns(request) /\ available > 0
                /\ request.fund_needed >= available)
             => (/\ response'.approve
                 /\ response'.fund_supply = available
                 /\ response'.borrow = response'.fund_supply)]_vars

\* a full grant returned borrow = fund_supply > 0 while the ledger lent nothing
C6_Witness ==
    /\ op = "request_for_open"
    /\ response.approve
    /\ response.fund_supply > 0
    /\ response.borrow = response.fund_supply
    /\ free_collateral = 0
    /\ borrowed_usd = 0

\* C7: handle_open_order_filled for an id present in collateral_freeze sets
\* free_collateral to its previous value plus collateral_freeze[id] minus
\* fund_used, and afterwards the id is no key of collateral_freeze.
C7_SettleReleasesAndRemoves ==
    [][\A msg \in FtxFundOpenFilledMessages :
          (FillSettled(msg) /\ msg.id \in DOMAIN collateral_freeze)
          => (/\ free_collateral' =
                     free_collateral + collateral_freeze[msg.id] - msg.fund_used
              /\ msg.id \notin DOMAIN collateral_freeze')]_vars

\* C8: handle_open_order_filled with an id that is not in collateral_freeze does
\* not raise, leaves collateral_freeze, free_usd and borrowed_usd unchanged and
\* sets free_collateral to max(0, free_collateral - fund_used).
C8_SettleUnknownId ==
    [][\A msg \in FtxFundOpenFilledMessages :
          (FillSettled(msg) /\ msg.id \notin DOMAIN collateral_freeze)
          => (/\ raised' = ""
              /\ UNCHANGED <<collateral_freeze, free_usd, borrowed_usd>>
              /\ free_collateral' = max(0, free_collateral - msg.fund_used))]_vars

\* C9: the freeze recorded for an id is released into free_collateral at most
\* once: a further handle_open_order_filled with the same id adds nothing back.
C9_NoDoubleRelease ==
    [][\A msg \in FtxFundOpenFilledMessages :
          (FillSettled(msg) /\ msg.id \in released)
          => free_collateral' = free_collateral - msg.fund_used]_vars

(***************************************************************************)
(* Claims about the sub process supervisor, checked under SpecSupervisor   *)
(***************************************************************************)
AllReady ==
    /\ trading_rules_ready
    /\ interest_rate_ready
    /\ fee_rate_ready
    /\ collateral_weights_ready
    /\ account_info_ready

\* C10: no sub process has been spawned (the process and the pipe registries are
\* empty, and no process or pipe was ever made) unless all five readiness events
\* are set, even when there are hedge pairs already.
C10_ReadinessGating ==
    AllReady \/ (/\ DOMAIN _sub_processes = {}
                 /\ DOMAIN _connections = {}
                 /\ alive = {}
                 /\ \A c \in Coins : spawn_count[c] = 0)

\* there are hedge pairs and the spawner was notified, but it is held back by
\* the one event that is still missing
C10_Witness ==
    /\ DOMAIN hedge_pairs # {}
    /\ spawn_pc = "account_info"
    /\ ~account_info_ready
    /\ trading_rules_ready /\ interest_rate_ready
    /\ fee_rate_ready /\ collateral_weights_ready
    /\ DOMAIN _sub_processes = {}

(***************************************************************************)
(* Claims about the sub process supervisor, checked under SpecSupervisor   *)
(***************************************************************************)
\* C11: when the reap scan finds a sub process that is not alive, then after the
\* scan the process is joined, its pipe is closed, and the coin has no entry in
\* _sub_processes, _connections, _sub_process_notify_events and
\* _sub_process_listen_tasks.
C11_ReapReleasesAll ==
    [][ReleaseDeadSubProcesses =>
          \A c \in DOMAIN _sub_processes :
              <<c, _sub_processes[c]>> \notin alive =>
                  /\ <<c, _sub_processes[c]>> \in joined'
                  /\ <<c, _connections[c]>> \in closed'
                  /\ c \notin DOMAIN _sub_processes'
                  /\ c \notin DOMAIN _connections'
                  /\ c \notin DOMAIN _sub_process_notify_events'
                  /\ c \notin DOMAIN _sub_process_listen_tasks']_vars

\* the sub process number n of coin c is registered and not alive, and c is a
\* hedge pair
DeadWorker(c, n) ==
    /\ c \in DOMAIN hedge_pairs
    /\ c \in DOMAIN _sub_processes
    /\ _sub_processes[c] = n
    /\ <<c, n>> \notin alive

\* the sub process number n of coin c was reaped and a later one runs on a
\* pipe made for it, which is not closed
Respawned(c, n) ==
    /\ <<c, n>> \in joined
    /\ <<c, n>> \in closed
    /\ c \in DOMAIN _sub_processes
    /\ _sub_processes[c] > n
    /\ <<c, _sub_processes[c]>> \in alive
    /\ c \in DOMAIN _connections
    /\ _connections[c] = _sub_processes[c]
    /\ <<c, _connections[c]>> \notin closed

\* C12: under SpecSupervisorFair, when the sub process of a hedge pair is dead,
\* then eventually it is reaped and a new sub process of the coin runs on a
\* fresh pipe, or the coin stops being a hedge pair.
C12_Respawn ==
    \A c \in Coins : \A n \in 1..MaxSpawns :
        DeadWorker(c, n) ~> (Respawned(c, n) \/ c \notin DOMAIN hedge_pairs)

\* a coin whose first sub process was reaped runs its second one
C12_Witness ==
    \E c \in Coins : Respawned(c, 1)

\* C13: every coin has at most one sub process alive, and a sub process that is
\* alive is the one registered in _sub_processes for its coin (so no spawn finds
\* the handle missing while it runs).
C13_OneAlivePerCoin ==
    /\ \A c \in Coins : Cardinality({n \in 1..MaxSpawns : <<c, n>> \in alive}) <= 1
    /\ \A w \in alive : /\ w[1] \in DOMAIN _sub_processes
                        /\ _sub_processes[w[1]] = w[2]

\* both coins run a sub process, one of them the second of its coin after
\* the first died and was reaped
C13_Witness ==
    /\ \A c \in Coins : \E n \in 1..MaxSpawns : <<c, n>> \in alive
    /\ \E c \in Coins : <<c, 1>> \in joined /\ <<c, 2>> \in alive

(***************************************************************************)
(* Claims about the messages of the sub processes, under SpecListenerFair  *)
(***************************************************************************)
\* C14: every fund request that _listen_sub_process_msg receives from the sub
\* process of a coin is eventually answered by exactly one fund response with
\* the id of the request, written to the pipe of that coin.
C14_RequestAnswered ==
    \A c \in Coins : \A id \in Ids :
        (id \in received[c]) ~>
            (Cardinality({i \in DOMAIN responses[c] : responses[c][i].id = id}) = 1)

(***************************************************************************)
(* Claims about stop_network, checked under SpecShutdown                   *)
(***************************************************************************)
\* C15: after a call of stop_network every registered sub process is terminated
\* and joined, every registered pipe is closed, _sub_processes and _connections
\* are empty, every listen task is cancelled and nothing was raised; a call
\* made after an earlier one changes none of these and raises nothing.
C15_StopReleasesAll ==
    [][StopNetwork =>
          /\ \A c \in DOMAIN _sub_processes :
                 /\ <<c, _sub_processes[c]>> \notin alive'
                 /\ <<c, _sub_processes[c]>> \in joined'
          /\ \A c \in DOMAIN _connections : <<c, _connections[c]>> \in closed'
          /\ DOMAIN _sub_processes' = {}
          /\ DOMAIN _connections' = {}
          /\ \A c \in DOMAIN _sub_process_listen_tasks :
                 <<c, _sub_process_listen_tasks[c]>> \in cancelled'
          /\ stop_raised' = ""
          /\ network = "stopped" =>
                 UNCHANGED <<_sub_processes, _connections, alive, joined, closed,
                             cancelled>>]_vars

(***************************************************************************)
(* Claims about _update_hedge_pair, checked under SpecEligibility          *)
(***************************************************************************)
\* the step is a run of _update_hedge_pair to its end, for the markets whose
\* enabled pairs are pairs, of which low_volume_coins are below the volume
\* floor, and an account that holds coins_that_have_position
RecomputeStep(pairs, low_volume_coins, coins_that_have_position) ==
    /\ market_pc # "get_markets"
    /\ market_pc' = "get_markets"
    /\ UpdateHedgePair(pairs, low_volume_coins, coins_that_have_position)

\* the collateral weight of the coin is missing or below 0.1
LowWeight(c) ==
    \/ c \notin DOMAIN collateral_weights
    \/ collateral_weights[c] < MinCollateralWeight

\* C16: after every run of _update_hedge_pair, every coin the account holds a
\* position in is a hedge pair, and it is CLOSE_ONLY when it is blacklisted,
\* below the volume floor, of low collateral weight, or outside a non-empty
\* whitelist.
C16_PositionKept ==
    [][\A pairs \in SUBSET Coins, coins_that_have_position \in SUBSET Coins :
          \A low_volume_coins \in SUBSET pairs :
              RecomputeStep(pairs, low_volume_coins, coins_that_have_position) =>
                  \A c \in coins_that_have_position :
                      /\ c \in DOMAIN hedge_pairs'
                      /\ (\/ c \in blacklist
                          \/ c \in low_volume_coins
                          \/ LowWeight(c)
                          \/ (whitelist # {} /\ c \notin whitelist))
                         => hedge_pairs'[c] = "CLOSE_ONLY"]_vars

\* C17: after every run of _update_hedge_pair, a hedge pair that is blacklisted,
\* below the volume floor or of missing or low collateral weight is a coin the
\* account holds a position in.
C17_BannedDropped ==
    [][\A pairs \in SUBSET Coins, coins_that_have_position \in SUBSET Coins :
          \A low_volume_coins \in SUBSET pairs :
              RecomputeStep(pairs, low_volume_coins, coins_that_have_position) =>
                  \A c \in DOMAIN hedge_pairs' :
                      (c \in blacklist \/ c \in low_volume_coins \/ LowWeight(c))
                          => c \in coins_that_have_position]_vars

(***************************************************************************)
(* Claims about _apply_funding_service, checked under SpecFunding          *)
(***************************************************************************)
\* the quotient (position - target*account_value)/(target + 1) capped by the
\* balance of the funding account, times target + 1, for the deposit requested
C18_Sized ==
    min(fs_request.position - fs_config.target_leverage * fs_request.account_value,
        (fs_config.target_leverage + 1) * fs_request.balance)

\* C18 as stated: when a deposit is requested, the leverage is above the upper
\* bound and the amount requested equals
\* min((position - target*account_value)/(target + 1), balance).
C18_DepositSize ==
    fs_request.kind = "deposit" =>
        /\ 10 * fs_request.position
               > fs_config.leverage_upper_bound * fs_request.account_value
        /\ fs_request.amount * (fs_config.target_leverage + 1) = 100 * C18_Sized

\* C18 amended: when a deposit is requested, the leverage is above the upper
\* bound and the amount requested is
\* min((position - target*account_value)/(target + 1), balance) rounded to the
\* nearest cent.
C18_DepositSizeRounded ==
    fs_request.kind = "deposit" =>
        /\ 10 * fs_request.position
               > fs_config.leverage_upper_bound * fs_request.account_value
        /\ 2 * (fs_request.amount * (fs_config.target_leverage + 1) - 100 * C18_Sized)
               <= fs_config.target_leverage + 1
        /\ 2 * (100 * C18_Sized - fs_request.amount * (fs_config.target_leverage + 1))
               <= fs_config.target_leverage + 1

\* target 2, account value 1000, upper bound 2.5: with position 3200 a deposit
\* of 400.00 is requested, with position 3300 one sized at 1300/3 is requested
\* as 433.33
C18_Witness ==
    /\ fs_request.kind = "deposit"
    /\ fs_config.target_leverage = 2
    /\ fs_config.leverage_upper_bound = 25
    /\ fs_request.account_value = 1000
    /\ \/ fs_request.position = 3200 /\ fs_request.amount = 40000
       \/ fs_request.position = 3300 /\ fs_request.amount = 43333

\* C19: the amount of every deposit requested is at most daily_max_net_deposit
\* minus the net deposit of the last 24 hours, and no deposit is requested when
\* the balance of the funding account is below min_deposit_amount or the amount
\* is below min_deposit_amount.
C19_DepositWithinQuota ==
    fs_request.kind = "deposit" =>
        /\ fs_request.amount
               <= 100 * (fs_config.daily_max_net_deposit - fs_request.net_deposit)
        /\ fs_request.balance >= fs_config.min_deposit_amount
        /\ fs_request.amount >= 100 * fs_config.min_deposit_amount

\* the quotient (target*account_value - position)/(target + 1) capped by
\* max(0, available - min_remain), times target + 1, for the withdrawal requested
C20_Sized ==
    min(fs_config.target_leverage * fs_request.account_value - fs_request.position,
        (fs_config.target_leverage + 1)
            * max(0, fs_request.available - fs_config.min_remain))

\* C20 as stated: when a withdrawal is requested, the leverage is below the
\* lower bound, the amount requested equals
\* min((target*account_value - position)/(target + 1),
\*     max(0, available - min_remain)) and exceeds min_withdraw_amount.
C20_WithdrawSize ==
    fs_request.kind = "withdraw" =>
        /\ 10 * fs_request.position
               < fs_config.leverage_lower_bound * fs_request.account_value
        /\ fs_request.amount * (fs_config.target_leverage + 1) = 100 * C20_Sized
        /\ fs_request.amount > 100 * fs_config.min_withdraw_amount

\* C20 amended: when a withdrawal is requested, the leverage is below the lower
\* bound, the amount requested is
\* min((target*account_value - position)/(target + 1),
\*     max(0, available - min_remain)) rounded to the nearest cent, and that
\* minimum, before rounding, exceeds min_withdraw_amount.
C20_WithdrawSizeRounded ==
    fs_request.kind = "withdraw" =>
        /\ 10 * fs_request.position
               < fs_config.leverage_lower_bound * fs_request.account_value
        /\ 2 * (fs_request.amount * (fs_config.target_leverage + 1) - 100 * C20_Sized)
               <= fs_config.target_leverage + 1
        /\ 2 * (100 * C20_Sized - fs_request.amount * (fs_config.target_leverage + 1))
               <= fs_config.target_leverage + 1
        /\ C20_Sized > (fs_config.target_leverage + 1) * fs_config.min_withdraw_amount
        /\ fs_request.amount >= 100 * fs_config.min_withdraw_amount

\* target 2, account value 1000, position 0, 1000 USD available: the withdrawal
\* is sized at 2000/3, below the cap, and requested as 666.67
C20_Witness ==
    /\ fs_request.kind = "withdraw"
    /\ fs_request.position = 0
    /\ fs_request.account_value = 1000
    /\ fs_request.available = 1000
    /\ fs_request.amount = 66667

(***************************************************************************)
(* Claims about the leverage band and the submissions of the funding       *)
(* service loop                                                            *)
(***************************************************************************)

\* the leverage the last run of _apply_funding_service read lies in the band
\* [leverage_lower_bound, leverage_upper_bound] (bounds in tenths)
InBand ==
    /\ fs_outcome.account_value # 0
    /\ 10 * fs_outcome.position >= fs_config.leverage_lower_bound * fs_outcome.account_value
    /\ 10 * fs_outcome.position <= fs_config.leverage_upper_bound * fs_outcome.account_value

\* C21: a run of the funding service that reads a leverage inside the band,
\* bounds included, calls neither request_deposit nor request_withdraw; a
\* deposit is requested only when the leverage is above the upper bound and
\* a withdrawal only when it is below the lower bound
C21_BandGatesRequests ==
    /\ InBand => fs_request.kind = "none" /\ fs_outcome.submitted = 0
    /\ fs_outcome.submitted = 1 => fs_request.kind \in {"deposit", "withdraw"}
    /\ fs_request.kind = "deposit" =>
          10 * fs_outcome.position > fs_config.leverage_upper_bound * fs_outcome.account_value
    /\ fs_request.kind = "withdraw" =>
          10 * fs_outcome.position < fs_config.leverage_lower_bound * fs_outcome.account_value

\* a run read a leverage equal to the upper bound and requested nothing
C21_Witness ==
    /\ fs_config.enable
    /\ 10 * fs_outcome.position = fs_config.leverage_upper_bound * fs_outcome.account_value
    /\ fs_outcome.account_value = 1000
    /\ fs_request.kind = "none"

\* C22: a run of the funding service does not submit a request of the kind
\* of a request that an earlier run submitted, that was reported in progress
\* by its status poll and that the funding service has not completed since
C22_NoResubmission ==
    ~ /\ fs_outcome.submitted >= 1
      /\ fs_outcome.in_progress_before = fs_request.kind

\* C23: a run of the funding service calls request_deposit or
\* request_withdraw at most once; when the call raises, it is not made
\* again in that run, no worker status is polled, and the loop can run
\* its next iteration
C23_OneSubmissionNoRetry ==
    /\ fs_outcome.submitted <= 1
    /\ fs_outcome.rejected =>
          /\ fs_outcome.submitted = 1
          /\ fs_outcome.status = ""
          /\ ENABLED ApplyFundingService

\* a run whose request the funding service rejected
C23_Witness ==
    /\ fs_outcome.rejected
    /\ fs_request.kind = "deposit"

(***************************************************************************)
(* Claims about failures in the loops                                      *)
(***************************************************************************)
\* _listen_sub_process_msg received a message from the pipe of coin c and
\* its handler raised
HandlerFailed(c) ==
    /\ inbox[c] # <<>>
    /\ inbox'[c] # inbox[c]
    /\ sends' = sends
    /\ listen_raised' # ""

C25_PollerSurvivesFailure ==
    /\ [](loop_name \in PollerLoops =>
             /\ loop_raised = "BlockingIOError" => process_exited
             /\ loop_raised = "Exception" => ~process_exited
             /\ loop_pc = "ended" => loop_cancel = "delivered")
    /\ [][(loop_name \in PollerLoops /\ loop_failures' > loop_failures) =>
             ((loop_raised' = "Exception" /\ loop_pc' = "backoff")
              \/ (loop_raised' = "BlockingIOError" /\ process_exited'))]_vars
    /\ [][(loop_name \in PollerLoops /\ loop_pc = "backoff" /\ loop_pc' # "backoff") =>
             ((loop_pc' = "call")
              \/ (loop_pc' = "ended" /\ loop_cancel' = "delivered"))]_vars

\* a poller whose external call raised twice, slept its backoff and whose
\* next call returned
C25_Witness ==
    /\ loop_name \in PollerLoops
    /\ loop_failures = MaxFailures
    /\ loop_raised = ""
    /\ loop_pc = "sleep"
    /\ ~process_exited

\* C26: once the CancelledError of stop_network was thrown into a periodic
\* loop, at its sleep or inside an iteration, the task has ended: the loop
\* is at no further await
C26_CancelEndsLoop ==
    loop_cancel = "delivered" => loop_pc = "ended"

(***************************************************************************)
(* Claims about update_account_state                                       *)
(***************************************************************************)
\* a call of update_account_state returned
AccountRefreshed ==
    /\ calls' = calls + 1
    /\ op' = "update_account_state"
    /\ raised' = ""

\* C27: update_account_state with a non-zero account value sets free_collateral
\* to max(0, reported free collateral - sum of the collateral freezes),
\* replaces leverage_info by one whose current_leverage is position_value /
\* account_value, and leaves collateral_freeze, free_usd and borrowed_usd as
\* they were
C27_RefreshAccount ==
    [][AccountRefreshed =>
          /\ free_collateral' =
                 max(0, synced_collateral' - SumFreeze(collateral_freeze, DOMAIN collateral_freeze))
          /\ leverage_info'.known
          /\ leverage_info'.account_value # 0
          /\ leverage_info'.current_leverage =
                 <<leverage_info'.position_value, leverage_info'.account_value>>
          /\ UNCHANGED <<collateral_freeze, free_usd, borrowed_usd>>]_vars

\* update_account_state returned with a freeze held: the free collateral is
\* the reported one less the freezes
C27_Witness ==
    /\ op = "update_account_state"
    /\ raised = ""
    /\ SumFreeze(collateral_freeze, DOMAIN collateral_freeze) > 0
    /\ free_collateral > 0
    /\ free_collateral = synced_collateral - SumFreeze(collateral_freeze, DOMAIN collateral_freeze)
    /\ leverage_info.position_value = 2500

\* C28: update_account_state with a zero account value raises from its
\* division (decimal.DivisionByZero, decimal.InvalidOperation when the
\* position value is zero too) and leaves the leverage limit and every field
\* of the ledger as they were; an iteration of the account poller that reads
\* such a snapshot leaves the account info event, the leverage info and the
\* ledger as they were, and the poller can run its next iteration
C28_ZeroAccountValue ==
    /\ [][\A info \in AccountInfos :
             (info.totalAccountValue = 0 /\ calls' = calls + 1 /\ update_account_state(info)) =>
                 /\ raised' \in {"DivisionByZero", "InvalidOperation"}
                 /\ UNCHANGED <<leverage_limit, ledger, synced_collateral>>]_vars
    /\ [][(account_info_failures' > account_info_failures) =>
             UNCHANGED <<account_info_ready, main_leverage_info, ledger>>]_vars
    /\ [](account_info_failures > 0 => ENABLED AccountInfoPolled)

\* update_account_state raised with a freeze held, and the account poller
\* read a zero account value before an iteration that set the event
C28_Witness ==
    /\ op = "update_account_state"
    /\ raised = "InvalidOperation"
    /\ collateral_freeze # EmptyDict
    /\ account_info_failures > 0
    /\ account_info_ready

(***************************************************************************)
(* Claims about FundManager.lock, checked under SpecAtomic                 *)
(***************************************************************************)
\* the tasks inside 'async with self.lock'
InLock == {t \in Tasks : tasks[t].stage \in {"locked", "partial"}}

\* C29: under every interleaving of the account poller and the listen tasks
\* at most one task is inside a FundManager method, that task holds the lock,
\* and whenever the event loop can run another task the lock is free and no
\* method is partly applied: no method suspends inside 'async with self.lock'
C29_AtomicLedgerCalls ==
    /\ Cardinality(InLock) <= 1
    /\ \A t \in Tasks : t \in InLock <=> lock = t
    /\ \A t \in InLock : current = t
    /\ current = "" => lock = "" /\ \A t \in Tasks : tasks[t].stage = "idle"

\* the account poller has assigned the reported free collateral and not yet
\* subtracted the freeze a listen task was granted
C29_Witness ==
    /\ tasks["_account_info_polling_loop"].stage = "partial"
    /\ collateral_freeze # EmptyDict
    /\ free_collateral = 600
    /\ op = "request_for_open"

(***************************************************************************)
(* Claims about spawning once the events are set, under SpecSupervisorFair *)
(***************************************************************************)
\* C30: once the five readiness events are set, a coin in hedge_pairs with no
\* sub process registered is eventually given one, or leaves hedge_pairs,
\* while the market poller goes on calling _update_hedge_pair; the pollers of
\* the events need not run again, and no event that is set is ever cleared
C30_EligibleSpawned ==
    /\ \A c \in Coins :
          (AllReady /\ c \in DOMAIN hedge_pairs /\ c \notin DOMAIN _sub_processes)
              ~> (c \in DOMAIN _sub_processes \/ c \notin DOMAIN hedge_pairs)
    /\ [][/\ trading_rules_ready => trading_rules_ready'
          /\ interest_rate_ready => interest_rate_ready'
          /\ fee_rate_ready => fee_rate_ready'
          /\ collateral_weights_ready => collateral_weights_ready'
          /\ account_info_ready => account_info_ready']_vars

\* with the five events set, BTC is in hedge_pairs and its first sub process
\* runs, ETH is in hedge_pairs and has none yet
C30_Witness ==
    /\ AllReady
    /\ "BTC" \in DOMAIN _sub_processes
    /\ <<"BTC", 1>> \in alive
    /\ "ETH" \in DOMAIN hedge_pairs
    /\ "ETH" \notin DOMAIN _sub_processes

\* the sub process of the pipe ch is registered in self._sub_processes
Started(ch) == ch[1] \in DOMAIN _sub_processes /\ _sub_processes[ch[1]] = ch[2]

\* the messages the snapshot of coin c consists of in the current state
C31_Snapshot(c) ==
    {ChannelMessage("FtxInterestRateMessage", ""), ChannelMessage("FtxFeeRateMessage", ""),
     ChannelMessage("FtxLeverageMessage", "")}
    \cup {ChannelMessage("FtxTradingRuleMessage", leg) :
             leg \in {l \in {"spot", "future"} : <<c, l>> \in trading_rules}}
    \cup (IF c \in DOMAIN collateral_weights
          THEN {ChannelMessage("FtxCollateralWeightMessage", "")} ELSE {})

\* C31: messages are only ever appended to a pipe, and the step that registers
\* the sub process of a pipe finds the pipe empty and leaves on it exactly the
\* snapshot: the trading rules of the legs that are known, the interest rate,
\* the fee rate, the collateral weight if known, and the leverage. The snapshot
\* so precedes every broadcast and order event written to the pipe, and the
\* interest rate, fee rate and leverage messages are always in it.
C31_ReplayFirst ==
    [][\A ch \in Channels :
          /\ Len(outbox[ch]) <= Len(outbox'[ch])
          /\ SubSeq(outbox'[ch], 1, Len(outbox[ch])) = outbox[ch]
          /\ ((~Started(ch) /\ Started(ch)')
              => /\ outbox[ch] = <<>>
                 /\ {outbox'[ch][i] : i \in 1..Len(outbox'[ch])} = C31_Snapshot(ch[1])
                 /\ Len(outbox'[ch]) = Cardinality(C31_Snapshot(ch[1])))]_vars

\* the second pipe of a coin carries the whole snapshot and then an order event
C31_Witness ==
    \E ch \in Channels :
        /\ ch[2] = 2
        /\ Started(ch)
        /\ Len(outbox[ch]) >= 4
        /\ outbox[ch][Len(outbox[ch])].type = "FtxOrderMessage"
        /\ \E i \in 1..Len(outbox[ch]) : outbox[ch][i].type = "FtxLeverageMessage"

(***************************************************************************)
(* Claims about the grants of request_for_open, checked under SpecLedger   *)
(***************************************************************************)
\* C32: an approved request_for_open adds max(0, spot_notional_value - free_usd)
\* to borrowed_usd, with free_usd as it was before the call, and sets free_usd
\* to max(0, free_usd - fund_supply), whether it grants the amount asked for or
\* all the collateral there is
C32_BorrowAndUsd ==
    [][\A request \in FtxFundRequestMessages :
          (RequestReturns(request) /\ response'.approve)
          => /\ borrowed_usd' =
                    borrowed_usd + max(0, request.spot_notional_value - free_usd)
             /\ free_usd' = max(0, free_usd - response'.fund_supply)]_vars

\* a request was granted all the collateral there was, more than the free usd
\* of 200, which left a borrow of 100 for the spot notional value of 300
C32_Witness ==
    /\ op = "request_for_open"
    /\ response.approve
    /\ free_collateral = 0
    /\ response.fund_supply > 200
    /\ free_usd = 0
    /\ borrowed_usd = 100

C34_MovesFreeToFrozen ==
    [][\A request \in FtxFundRequestMessages :
          (RequestReturns(request) /\ response'.approve)
          => free_collateral' + collateral_freeze'[request.id] = free_collateral]_vars

\* C35: with a leverage limit L the fund_supply granted since the last
\* update_account_state sums to at most max(0, (L*account_value -
\* position_value) / (L - 1)) of that snapshot, so that (position_value +
\* granted) / (account_value + granted) stays at or below L
C35_GrantsWithinLimit ==
    (leverage_limit # NoLimit /\ leverage_info.known)
    => granted <= max(0, (leverage_limit * leverage_info.account_value
                            - leverage_info.position_value) \div (leverage_limit - 1))

\* C36: the borrow in the response of an approved request_for_open is the
\* amount by which the call increased borrowed_usd
C36_BorrowReported ==
    [][\A request \in FtxFundRequestMessages :
          (RequestReturns(request) /\ response'.approve)
          => response'.borrow = borrowed_usd' - borrowed_usd]_vars

(***************************************************************************)
(* Claims about the registries of the sub processes                        *)
(***************************************************************************)
\* C37: after every pass of the spawner and every scan of the reaper, a pass in
\* which sub_process.start() raises included, the coins with a registered pipe
\* are the coins with a registered sub process
C37_RegistriesAgree == DOMAIN _connections = DOMAIN _sub_processes

\* the listen task registered for coin c was created and not cancelled: its
\* while loop has not ended
ListenTaskPending(c) ==
    /\ c \in DOMAIN _sub_process_listen_tasks
    /\ <<c, _sub_process_listen_tasks[c]>> \notin cancelled

\* C38: every listen task that has not ended reads from the pipe that is
\* registered for its coin (so that there is one such task per coin, and none
\* left on the closed pipe of a sub process that was reaped)
C38_ListenTaskOnRegisteredPipe ==
    \A c \in Coins :
        ListenTaskPending(c) => Registered(<<c, _sub_process_listen_tasks[c]>>)

(***************************************************************************)
(* Claims about the receive of _listen_sub_process_msg                     *)
(***************************************************************************)
\* C39: whenever the notify event of a coin whose listen task runs is set, a
\* message is pending on the pipe of the coin: the listener, which goes on to
\* conn.recv() as soon as the event is set, never blocks the event loop on an
\* empty pipe, also not in the iteration after one of its handlers raised
C39_ReceiveOnlyWhenPending ==
    \A c \in DOMAIN _sub_process_listen_tasks :
        (ListenTaskRuns(c) /\ _sub_process_notify_events[c]) => inbox[c] # <<>>

=============================================================================
